---- MODULE Spec2Model ----
(***************************************************************************)
(* A model of the eBPF monitor's output pipeline (src/src/utils/           *)
(* output_controller.py), of the monitor manager's start and shutdown      *)
(* sequences (src/src/ebpf_monitor.py, src/main.py), of the monitors'      *)
(* drain threads (src/src/monitors/base.py) and of the daemon's PID-file   *)
(* protocol (src/src/utils/daemon_manager.py).                             *)
(*                                                                         *)
(* Two state machines share the module.  Spec is one monitoring process:   *)
(* its main thread, the output controller's consumer thread and one drain  *)
(* thread per monitor.  DaemonSpec is a set of processes that use the same *)
(* PID-file path.  File-system and kernel failures other than a failing    *)
(* load_ebpf_program() or run() are not modelled: open(), write() and      *)
(* close() of a CSV file succeed.                                          *)
(***************************************************************************)
EXTENDS Integers, Sequences, FiniteSets, TLC

\* ------------------------------------------------------------------ bounds

\* Events the kernel delivers to the drain threads during one run, all
\* monitors together.
MaxPush == 3
\* The configured output.buffer_size ranges over 1..MaxBufferSize.
MaxBufferSize == 2

\* ------------------------------------------------------- program constants

\* self.batch_size: records popped by one _process_buffer call.
batch_size == 100

\* The monitors the manager builds, in the order of selected_monitors.
TypeOrder == <<"exec", "io">>
MonitorTypes == {TypeOrder[i] : i \in 1..Len(TypeOrder)}

FILE_ONLY == "file_only"
FILE_AND_CONSOLE == "file_and_console"

\* ------------------------------------------------------------------- state

VARIABLES
    \* inputs of the run
    selected_monitors, \* eBPFMonitor.selected_monitors (all of them enabled)
    pending_events,    \* events the kernel has yet to deliver to the drain threads
    poll_events,       \* events one perf_buffer_poll call finds in the ring buffer
    \* OutputController
    buffer_size,      \* self.buffer_size
    oc_running,       \* self.running
    oc_stop_event,    \* self.stop_event
    oc_monitors,      \* keys of self.monitors
    monitor_locks,    \* keys of self.monitor_locks
    lock_holder,      \* who holds monitor_locks[t]: "none", "consumer", "main", "drain"
    csv_files,        \* keys of self.csv_files / self.csv_writers (open files)
    csv_rows,         \* rows written to t's CSV file, in file order
    events_buffer,    \* self.events_buffer[t], a deque(maxlen=buffer_size)
    output_mode,      \* self.output_mode
    header_printed,   \* types whose header_printed flag is True
    console,          \* lines printed for t: "header" or a record
    oc_cleanups,      \* times OutputController.cleanup() ran
    \* consumer thread (_output_loop)
    c_pc, c_todo, c_type, c_batch,
    \* monitors (BaseMonitor) and their drain threads
    bpf,              \* monitor.bpf is not None
    mon_running,      \* monitor.running
    mon_stop_event,   \* monitor.stop_event
    mon_cleanups,     \* times bpf.cleanup() ran for the monitor
    events_dropped,   \* monitor.stats["events_dropped"]
    d_pc, next_id,
    d_events,         \* events the current perf_buffer_poll call is handing to the callback
    \* manager (eBPFMonitor) and the main thread (main.py)
    m_pc, m_todo, mgr_running, status_loaded, status_running, status_error,
    exit_code,
    \* history of the run
    pushed,           \* records appended to t's FIFO, in order
    head_dropped,     \* records the deque discarded from its head, in order
    at_stop,          \* FIFOs and pushed records when OutputController.stop() was called
    \* resources the process has used
    bpf_compiles,     \* times BPF(text=...) was called for the monitor
    csv_opened,       \* files _setup_csv_file has opened for the type
    csv_closed,       \* files _close_csv_file has closed for the type
    d_orphans,        \* live drain threads that monitor_thread no longer names
    \* calls made by a client of the classes
    api_calls,        \* how many calls the client has made
    api_log,          \* the last two of them, each <<method, monitor type>>
    \* the PID-file path and the files it has named (an inode is an index)
    path_inode,       \* the inode the path names, 0 when the path does not exist
    inode_content,    \* the PID a file holds, 0 for an empty file
    inode_lock,       \* the process holding flock(LOCK_EX) on a file, 0 for none
    \* processes started with --daemon (a process is named by the PID of its
    \* daemon child)
    p_pc,
    p_handle,         \* self.pid_file_handle: the inode held open, 0 for None
    is_daemon,        \* self.is_daemon (the signal handlers are installed)
    shutdown_requested, \* self.shutdown_requested
    p_exit,           \* exit code of the process, -1 while it has none
    \* the process started with --daemon-stop
    sd_pc, sd_pid, sd_polls, sd_result,
    sd_alive,         \* the process stop_daemon signalled existed at every poll so far
    ds_reply,         \* what the last `main.py --daemon-status` printed
    stats_map,        \* the keys present in an aggregate monitor's statistics map
    agg_pc,           \* where the drain loop of the aggregate monitor is
    agg_snapshot,     \* the keys listed at the last snapshot
    agg_todo,         \* the keys of the snapshot not yet visited
    agg_consumed,     \* per key, lookup-and-deletes of this cycle that returned a value
    agg_records,      \* per key, records handed to the sink in this cycle
    agg_gone,         \* keys of the snapshot another party deleted since the snapshot
    hdr_count,        \* per type, console headers printed since it became registered
    last_signal,      \* the signal delivered last to the daemon whose pipeline runs
    write_faults,     \* whether format_for_csv or writerow can raise in this run
    csv_failed,       \* per type, the records whose CSV row was lost to such an error
    min_latency_us,   \* BioMonitor.min_latency_us
    bio_count,        \* value.count of the aggregate row should_collect is given
    bio_total_ns,     \* value.total_ns of that row
    bio_collect,      \* <<what should_collect returned>>, empty before the call
    ev_monitor,       \* the monitor a kernel event belongs to: "interrupt" or "page_fault"
    ev_bits,          \* the flags set in event.irq_type or event.fault_type
    ev_config,        \* the monitor_* switches that are True in the monitor's configuration
    ev_handled,       \* <<whether the callback handed the event to the controller>>
    ev_console,       \* <<the type column format_for_console printed>>
    ev_type_str,      \* <<irq_type_str or fault_type_str of the CSV row>>
    kallsyms,         \* the lines of /proc/kallsyms: <<type, name>> each
    patterns,         \* FuncMonitor.patterns
    probe_limit,      \* FuncMonitor.probe_limit
    matched_functions,\* <<the dict _find_matching_functions returned>>: pairs <<id, name>>
    target_processes, \* the keys of eBPFMonitor.target_processes
    target_pids,      \* per monitor, the keys of monitor.target_pids (and of its kernel map)
    add_result,       \* <<what the last _add_target_process returned>>
    lk_monitors,      \* the keys of OutputController.monitors, as the lock protocol sees them
    lk_writers,       \* the keys of OutputController.csv_writers
    lk_mode,          \* OutputController.output_mode
    lk_mon,           \* per type, the Lock object in self.monitor_locks (0: no entry)
    lk_csv,           \* per type, the Lock object in self.csv_locks (0: no entry)
    lk_calls,         \* calls the main thread has made on the controller
    lk_stop,          \* self.stop_event, as the consumer's loop test sees it
    lk_running,       \* self.running, as handle_event and stop() test it
    th_prog,          \* per thread, the lock steps left of the call it is in
    th_held,          \* per thread, the locks it holds, innermost last
    th_ref            \* per thread, the local monitor_lock / csv_lock it looked up

inputVars == <<selected_monitors, buffer_size, poll_events, write_faults>>
ocVars == <<inputVars, oc_running, oc_stop_event, oc_monitors, monitor_locks,
            lock_holder, csv_files, csv_rows, events_buffer, output_mode,
            header_printed, console, oc_cleanups>>
consumerVars == <<c_pc, c_todo, c_type, c_batch>>
monitorVars == <<bpf, mon_running, mon_stop_event, mon_cleanups, events_dropped,
                 d_pc, next_id, d_events, pending_events>>
mainVars == <<m_pc, m_todo, mgr_running, status_loaded, status_running, status_error,
              exit_code>>
historyVars == <<pushed, head_dropped, at_stop>>
auditVars == <<bpf_compiles, csv_opened, csv_closed, d_orphans>>
apiVars == <<api_calls, api_log>>
outVars == <<hdr_count, csv_failed>>
pipelineVars == <<ocVars, consumerVars, monitorVars, mainVars, historyVars, auditVars,
                  apiVars, outVars>>
fileVars == <<path_inode, inode_content, inode_lock>>
procVars == <<p_pc, p_handle, is_daemon, shutdown_requested, p_exit>>
stopVars == <<sd_pc, sd_pid, sd_polls, sd_result, sd_alive>>
statusVars == <<ds_reply>>
daemonVars == <<fileVars, procVars, stopVars, statusVars>>
aggVars == <<stats_map, agg_pc, agg_snapshot, agg_todo, agg_consumed, agg_records,
             agg_gone>>
signalVars == <<last_signal>>
bioVars == <<min_latency_us, bio_count, bio_total_ns, bio_collect>>
typeVars == <<ev_monitor, ev_bits, ev_config, ev_handled, ev_console, ev_type_str>>
funcVars == <<kallsyms, patterns, probe_limit, matched_functions>>
targetVars == <<target_processes, target_pids, add_result>>
lockVars == <<lk_monitors, lk_writers, lk_mode, lk_mon, lk_csv, lk_calls, lk_stop,
              lk_running, th_prog, th_held, th_ref>>
moreVars == <<typeVars, funcVars, targetVars, lockVars>>
sideVars == <<aggVars, signalVars, bioVars, moreVars>>
vars == <<pipelineVars, apiVars, auditVars, daemonVars, sideVars>>

\* ----------------------------------------------------------------- helpers

\* list(d.keys()) of a dict whose keys were inserted in TypeOrder.
KeyList(S) == SelectSeq(TypeOrder, LAMBDA t : t \in S)

Min(a, b) == IF a <= b THEN a ELSE b

\* A plain list in place of the bounded deque: nothing is ever discarded.
ListExtend(q, xs, n) == q \o xs

\* deque(maxlen=n) after the records xs were appended one after the other: each
\* append to a full deque discards its leftmost item, so the last n remain.
DequeExtend(q, xs, n) ==
    LET all == q \o xs
    IN  IF Len(all) > n THEN SubSeq(all, Len(all) - n + 1, Len(all)) ELSE all

\* The records the deque discarded from its head during those appends, in order.
DequeDiscards(q, xs, n) ==
    LET all == q \o xs
    IN  IF Len(all) > n THEN SubSeq(all, 1, Len(all) - n) ELSE <<>>

\* The batch _process_buffer pops: up to batch_size records from the left.
PopBatch(q) == SubSeq(q, 1, Min(Len(q), batch_size))
AfterPop(q) == SubSeq(q, Min(Len(q), batch_size) + 1, Len(q))

\* _update_output_mode with `monitor_count < 1` as its test.
ModeForNone(S) == IF Cardinality(S) < 1 THEN FILE_AND_CONSOLE ELSE FILE_ONLY

\* _update_output_mode for a set of registered monitors.
ModeFor(S) == IF Cardinality(S) <= 1 THEN FILE_AND_CONSOLE ELSE FILE_ONLY

\* ------------------------------------------------- OutputController (state)

\* register_monitor(t): under buffer_mgmt_lock, record the monitor, reset its
\* header flag, create its locks, update the mode and open its CSV file.
register_monitor(t) ==
    /\ oc_monitors' = oc_monitors \cup {t}
    /\ header_printed' = header_printed \ {t}
    /\ monitor_locks' = monitor_locks \cup {t}
    /\ lock_holder' = [lock_holder EXCEPT ![t] = "none"]
    /\ output_mode' = ModeFor(oc_monitors \cup {t})
    /\ csv_files' = csv_files \cup {t}
    /\ csv_rows' = [csv_rows EXCEPT ![t] = <<>>]
    /\ csv_opened' = [csv_opened EXCEPT ![t] = @ + 1]
    /\ hdr_count' = IF t \in oc_monitors THEN hdr_count ELSE [hdr_count EXCEPT ![t] = 0]
    /\ UNCHANGED csv_failed

\* unregister_monitor(t): under buffer_mgmt_lock, forget the monitor, its header
\* flag and its locks, update the mode and close its CSV file.
unregister_monitor(t) ==
    IF t \in oc_monitors
    THEN /\ oc_monitors' = oc_monitors \ {t}
         /\ header_printed' = header_printed \ {t}
         /\ monitor_locks' = monitor_locks \ {t}
         /\ output_mode' = ModeFor(oc_monitors \ {t})
         /\ csv_files' = csv_files \ {t}
         /\ csv_closed' = [csv_closed EXCEPT ![t] = IF t \in csv_files THEN @ + 1 ELSE @]
    ELSE UNCHANGED <<oc_monitors, header_printed, monitor_locks, output_mode, csv_files,
                     csv_closed>>

\* The sets of records of a batch whose format_for_csv or writerow may raise.
FaultSets(batch) ==
    IF write_faults THEN SUBSET {batch[i] : i \in 1..Len(batch)} ELSE {{}}

\* The CSV branch of _process_event_batch runs for t: t has a writer, a CSV
\* lock and a monitor to format the row (csv_locks and monitors share their keys).
WritesCsv(t) == t \in csv_files /\ t \in oc_monitors

\* _write_csv_batch: one writerow per record; a record in bad raises inside
\* the loop's try, is logged, and the loop goes on with the next record.
CsvAfterBatch(t, batch, bad) ==
    IF WritesCsv(t)
    THEN [csv_rows EXCEPT ![t] = @ \o SelectSeq(batch, LAMBDA e : e \notin bad)]
    ELSE csv_rows

\* _write_console_batch: the header on the first batch, then one line per record.
ConsoleAfterBatch(t, batch) ==
    IF output_mode = FILE_AND_CONSOLE /\ t \in oc_monitors
    THEN [console EXCEPT ![t] =
            @ \o (IF t \in header_printed THEN <<>> ELSE <<"header">>) \o batch]
    ELSE console

HeaderAfterBatch(t) ==
    IF output_mode = FILE_AND_CONSOLE /\ t \in oc_monitors
    THEN header_printed \cup {t}
    ELSE header_printed

\* _process_event_batch(t, batch): CSV rows, then console lines.
process_event_batch(t, batch) ==
    /\ \E bad \in FaultSets(batch) :
        /\ csv_rows' = CsvAfterBatch(t, batch, bad)
        /\ csv_failed' = IF WritesCsv(t)
                         THEN [csv_failed EXCEPT ![t] =
                                  @ \o SelectSeq(batch, LAMBDA e : e \in bad)]
                         ELSE csv_failed
    /\ console' = ConsoleAfterBatch(t, batch)
    /\ header_printed' = HeaderAfterBatch(t)
    /\ hdr_count' = IF HeaderAfterBatch(t) # header_printed
                    THEN [hdr_count EXCEPT ![t] = @ + 1]
                    ELSE hdr_count

\* ------------------------------------------------------------------- Init

PipelineState ==
    /\ oc_running = FALSE
    /\ oc_stop_event = FALSE
    /\ oc_monitors = {}
    /\ monitor_locks = {}
    /\ lock_holder = [t \in MonitorTypes |-> "none"]
    /\ csv_files = {}
    /\ csv_rows = [t \in MonitorTypes |-> <<>>]
    /\ events_buffer = [t \in MonitorTypes |-> <<>>]
    /\ output_mode = FILE_ONLY
    /\ header_printed = {}
    /\ console = [t \in MonitorTypes |-> <<>>]
    /\ hdr_count = [t \in MonitorTypes |-> 0]
    /\ csv_failed = [t \in MonitorTypes |-> <<>>]
    /\ oc_cleanups = 0
    /\ c_pc = "none"
    /\ c_todo = <<>>
    /\ c_type = "none"
    /\ c_batch = <<>>
    /\ bpf = [t \in MonitorTypes |-> FALSE]
    /\ mon_running = [t \in MonitorTypes |-> FALSE]
    /\ mon_stop_event = [t \in MonitorTypes |-> FALSE]
    /\ mon_cleanups = [t \in MonitorTypes |-> 0]
    /\ events_dropped = [t \in MonitorTypes |-> 0]
    /\ d_pc = [t \in MonitorTypes |-> "none"]
    /\ next_id = [t \in MonitorTypes |-> 0]
    /\ d_events = [t \in MonitorTypes |-> <<>>]
    /\ m_pc = "load"
    /\ m_todo = selected_monitors
    /\ mgr_running = FALSE
    /\ status_loaded = [t \in MonitorTypes |-> FALSE]
    /\ status_running = [t \in MonitorTypes |-> FALSE]
    /\ status_error = [t \in MonitorTypes |-> FALSE]
    /\ exit_code = -1
    /\ pushed = [t \in MonitorTypes |-> <<>>]
    /\ head_dropped = [t \in MonitorTypes |-> <<>>]
    /\ at_stop = [queued |-> [t \in MonitorTypes |-> <<>>],
                  pushed |-> [t \in MonitorTypes |-> <<>>]]
    /\ bpf_compiles = [t \in MonitorTypes |-> 0]
    /\ csv_opened = [t \in MonitorTypes |-> 0]
    /\ csv_closed = [t \in MonitorTypes |-> 0]
    /\ d_orphans = [t \in MonitorTypes |-> 0]
    /\ api_calls = 0
    /\ api_log = <<>>

\* ---------------------------------------------- main thread: load and start

\* The ways load_ebpf_program() ends: True; False with BPF() having raised
\* (self.bpf unchanged); False with _configure_ebpf_program() having raised
\* after self.bpf was assigned.
LoadOutcomes == {"loaded", "compile_failed", "configure_failed"}

\* eBPFMonitor._load_monitor for the next monitor of eBPFMonitor.load():
\* load_ebpf_program() succeeds or fails; a loaded monitor is registered.
LoadMonitor ==
    /\ m_pc = "load" /\ m_todo # <<>>
    /\ LET t == Head(m_todo) IN
        /\ m_todo' = Tail(m_todo)
        /\ \E outcome \in LoadOutcomes :
            /\ bpf' = [bpf EXCEPT ![t] = @ \/ outcome # "compile_failed"]
            /\ bpf_compiles' = [bpf_compiles EXCEPT ![t] = @ + 1]
            /\ IF outcome = "loaded"
               THEN /\ status_loaded' = [status_loaded EXCEPT ![t] = TRUE]
                    /\ status_error' = [status_error EXCEPT ![t] = FALSE]
                    /\ register_monitor(t)
               ELSE /\ status_error' = [status_error EXCEPT ![t] = TRUE]
                    /\ UNCHANGED <<status_loaded, oc_monitors, header_printed, hdr_count, csv_failed,
                                monitor_locks, lock_holder, output_mode, csv_files, csv_rows,
                                csv_opened>>
    /\ UNCHANGED <<inputVars, oc_cleanups, oc_running, oc_stop_event, events_buffer, console,
                   consumerVars, mon_running, mon_stop_event, mon_cleanups,
                   events_dropped, d_pc, next_id, d_events, pending_events, m_pc, mgr_running, status_running,
                   exit_code, historyVars,
                   apiVars, csv_closed, d_orphans, daemonVars, sideVars>>

\* load() that requires every monitor to have loaded.
LoadedAll == \A t \in MonitorTypes : status_loaded[t]

\* What eBPFMonitor.load() returns: `success_count > 0`.
LoadedSome == \E t \in MonitorTypes : status_loaded[t]

\* eBPFMonitor.load() returns success_count > 0; main.py exits 1 otherwise, and
\* the outer finally runs eBPFMonitor.cleanup().
LoadDone ==
    /\ m_pc = "load" /\ m_todo = <<>>
    /\ IF LoadedSome
       THEN /\ m_pc' = "oc_start"
            /\ UNCHANGED <<m_todo, exit_code>>
       ELSE /\ m_pc' = "cleanup"
            /\ m_todo' = selected_monitors
            /\ exit_code' = 1
    /\ UNCHANGED <<ocVars, consumerVars, monitorVars, mgr_running, status_loaded,
                   status_running, historyVars,
                   apiVars, auditVars, status_error, daemonVars, sideVars, outVars>>

\* OutputController.start(): clear the stop event, start the consumer thread.
oc_start ==
    /\ m_pc = "oc_start"
    /\ IF oc_running
       THEN UNCHANGED <<oc_stop_event, c_pc, oc_running>>
       ELSE /\ oc_stop_event' = FALSE
            /\ c_pc' = "loop"
            /\ oc_running' = TRUE
    /\ m_pc' = "run"
    /\ m_todo' = selected_monitors
    /\ UNCHANGED <<inputVars, oc_cleanups, oc_monitors, monitor_locks, lock_holder, csv_files,
                   csv_rows, events_buffer, output_mode, header_printed, console,
                   c_todo, c_type, c_batch, monitorVars, mgr_running, status_loaded,
                   status_running, exit_code, historyVars,
                   apiVars, auditVars, status_error, daemonVars, sideVars, outVars>>

\* The thread monitor_thread names has been started and has not ended.
ThreadAlive(t) == d_pc[t] \in {"poll", "he_lock"}

\* BaseMonitor.run() past its `if self.running` test: stop_event.clear(), a new
\* Thread(target=__monitor_loop) replaces monitor_thread and is started,
\* running = True.  A thread the old monitor_thread named is not waited for.
StartThread(t) ==
    /\ mon_stop_event' = [mon_stop_event EXCEPT ![t] = FALSE]
    /\ d_orphans' = [d_orphans EXCEPT ![t] = IF ThreadAlive(t) THEN @ + 1 ELSE @]
    /\ d_pc' = [d_pc EXCEPT ![t] = "poll"]
    /\ mon_running' = [mon_running EXCEPT ![t] = TRUE]

\* A mutation of CanStart: the manager starts every monitor it holds.
StartsAny(t) == bpf[t]

\* _start_monitors calls run() only for a monitor whose status is loaded, and
\* run() (require_bpf_loaded) goes on only when self.bpf is not None.
CanStart(t) == status_loaded[t] /\ bpf[t]

\* _start_monitors that gives up at the first run() that fails.
StopAfterFailedRun(todo) == <<>>

\* The monitors _start_monitors still visits after a run() that returned False
\* or raised: the error is recorded and the loop goes on.
AfterFailedRun(todo) == Tail(todo)

\* eBPFMonitor._start_monitors for the next monitor: a monitor that is not
\* loaded is skipped; else run() is called, and it starts the drain thread
\* (status running, error None) or returns False or raises (error recorded).
StartMonitor ==
    /\ m_pc = "run" /\ m_todo # <<>>
    /\ LET t == Head(m_todo) IN
        /\ IF ~CanStart(t)
           THEN /\ m_todo' = Tail(m_todo)
                /\ UNCHANGED <<mon_running, mon_stop_event, d_pc, d_orphans,
                               status_running, status_error>>
           ELSE \E ok \in BOOLEAN :
                IF ok
                THEN /\ IF mon_running[t]
                        THEN UNCHANGED <<mon_running, mon_stop_event, d_pc, d_orphans>>
                        ELSE StartThread(t)
                     /\ status_running' = [status_running EXCEPT ![t] = TRUE]
                     /\ status_error' = [status_error EXCEPT ![t] = FALSE]
                     /\ m_todo' = Tail(m_todo)
                ELSE /\ status_error' = [status_error EXCEPT ![t] = TRUE]
                     /\ m_todo' = AfterFailedRun(m_todo)
                     /\ UNCHANGED <<mon_running, mon_stop_event, d_pc, d_orphans,
                                    status_running>>
    /\ UNCHANGED <<ocVars, consumerVars, bpf, mon_cleanups, events_dropped, next_id, d_events, pending_events,
                   m_pc, mgr_running, status_loaded, exit_code, historyVars,
                   apiVars, bpf_compiles, csv_opened, csv_closed, daemonVars, sideVars, outVars>>

\* eBPFMonitor.start() after _start_monitors: running = True when a monitor
\* runs; otherwise start() returns False and main.py exits 1 through the outer
\* finally (eBPFMonitor.cleanup()).
StartDone ==
    /\ m_pc = "run" /\ m_todo = <<>>
    /\ IF \E t \in MonitorTypes : status_running[t]
       THEN /\ mgr_running' = TRUE
            /\ m_pc' = "main_loop"
            /\ UNCHANGED <<m_todo, exit_code>>
       ELSE /\ m_pc' = "cleanup"
            /\ m_todo' = selected_monitors
            /\ exit_code' = 1
            /\ UNCHANGED mgr_running
    /\ UNCHANGED <<ocVars, consumerVars, monitorVars, status_loaded, status_running,
                   historyVars,
                   apiVars, auditVars, status_error, daemonVars, sideVars, outVars>>

\* ------------------------------------------------- main thread: the shutdown

\* main.py: KeyboardInterrupt (or an exception) ends the supervision loop
\* `while ebpf_monitor.is_running(): time.sleep(1)`; its finally calls
\* eBPFMonitor.stop().
KeyboardInterrupt ==
    /\ m_pc = "main_loop"
    /\ m_pc' = "stop"
    /\ UNCHANGED <<ocVars, consumerVars, monitorVars, m_todo, mgr_running,
                   status_loaded, status_running, exit_code, historyVars,
                   apiVars, auditVars, status_error, daemonVars, sideVars, outVars>>

\* eBPFMonitor.stop(): returns at once when not running; otherwise it calls
\* output_controller.stop() first.
mgr_stop ==
    /\ m_pc = "stop"
    /\ IF mgr_running
       THEN m_pc' = "oc_stop" /\ UNCHANGED m_todo
       ELSE m_pc' = "cleanup" /\ m_todo' = selected_monitors
    /\ UNCHANGED <<ocVars, consumerVars, monitorVars, mgr_running, status_loaded,
                   status_running, exit_code, historyVars,
                   apiVars, auditVars, status_error, daemonVars, sideVars, outVars>>

\* OutputController.stop(), first part: return when not running, else set the
\* stop event.
oc_stop_begin ==
    /\ m_pc = "oc_stop"
    /\ IF oc_running
       THEN /\ oc_stop_event' = TRUE
            /\ m_pc' = "oc_join"
            /\ at_stop' = [queued |-> events_buffer, pushed |-> pushed]
            /\ UNCHANGED m_todo
       ELSE /\ m_pc' = "stop_monitors"
            /\ m_todo' = selected_monitors
            /\ UNCHANGED <<oc_stop_event, at_stop>>
    /\ UNCHANGED <<inputVars, oc_cleanups, oc_running, oc_monitors, monitor_locks, lock_holder,
                   csv_files, csv_rows, events_buffer, output_mode, header_printed,
                   console, consumerVars, monitorVars, mgr_running, status_loaded,
                   status_running, exit_code, pushed, head_dropped,
                   apiVars, auditVars, status_error, daemonVars, sideVars, outVars>>

\* output_thread.join(timeout=5): returns when the consumer thread has ended or
\* when the timeout has passed with the thread still alive.
oc_stop_join ==
    /\ m_pc = "oc_join"
    /\ m_pc' = "oc_drain"
    /\ m_todo' = KeyList(oc_monitors)
    /\ UNCHANGED <<ocVars, consumerVars, monitorVars, mgr_running, status_loaded,
                   status_running, exit_code, historyVars,
                   apiVars, auditVars, status_error, daemonVars, sideVars, outVars>>

\* The final drain of stop(): for the next type, take its buffer lock and run
\* _process_buffer once (one batch popped and written), then release the lock.
oc_stop_drain ==
    /\ m_pc = "oc_drain" /\ m_todo # <<>>
    /\ LET t == Head(m_todo) IN
        IF t \in monitor_locks
        THEN /\ lock_holder[t] = "none"
             /\ events_buffer' = [events_buffer EXCEPT ![t] = AfterPop(@)]
             /\ process_event_batch(t, PopBatch(events_buffer[t]))
             /\ m_todo' = Tail(m_todo)
        ELSE /\ m_todo' = Tail(m_todo)
             /\ UNCHANGED <<events_buffer, csv_rows, console, header_printed, hdr_count, csv_failed>>
    /\ UNCHANGED <<inputVars, oc_cleanups, oc_running, oc_stop_event, oc_monitors, monitor_locks,
                   lock_holder, csv_files, output_mode, consumerVars, monitorVars,
                   m_pc, mgr_running, status_loaded, status_running, exit_code,
                   historyVars,
                   apiVars, auditVars, status_error, daemonVars, sideVars>>

\* stop() after the drain: _flush_all(), then the files are closed one by one.
oc_stop_flush ==
    /\ m_pc = "oc_drain" /\ m_todo = <<>>
    /\ m_pc' = "oc_close"
    /\ m_todo' = KeyList(csv_files)
    /\ UNCHANGED <<ocVars, consumerVars, monitorVars, mgr_running, status_loaded,
                   status_running, exit_code, historyVars,
                   apiVars, auditVars, status_error, daemonVars, sideVars, outVars>>

\* _close_csv_file(t) of stop(): close the file and forget handle and writer.
oc_stop_close ==
    /\ m_pc = "oc_close" /\ m_todo # <<>>
    /\ csv_files' = csv_files \ {Head(m_todo)}
    /\ csv_closed' = [csv_closed EXCEPT ![Head(m_todo)] =
                            IF Head(m_todo) \in csv_files THEN @ + 1 ELSE @]
    /\ m_todo' = Tail(m_todo)
    /\ UNCHANGED <<inputVars, oc_cleanups, oc_running, oc_stop_event, oc_monitors, monitor_locks,
                   lock_holder, csv_rows, events_buffer, output_mode, header_printed,
                   console, consumerVars, monitorVars, m_pc, mgr_running,
                   status_loaded, status_running, exit_code, historyVars,
                   apiVars, bpf_compiles, csv_opened, d_orphans, status_error, daemonVars, sideVars, outVars>>

\* The end of stop(): running = False; eBPFMonitor.stop() goes on to
\* _stop_monitors().
oc_stop_end ==
    /\ m_pc = "oc_close" /\ m_todo = <<>>
    /\ oc_running' = FALSE
    /\ m_pc' = "stop_monitors"
    /\ m_todo' = selected_monitors
    /\ UNCHANGED <<inputVars, oc_cleanups, oc_stop_event, oc_monitors, monitor_locks, lock_holder,
                   csv_files, csv_rows, events_buffer, output_mode, header_printed,
                   console, consumerVars, monitorVars, mgr_running, status_loaded,
                   status_running, exit_code, historyVars,
                   apiVars, auditVars, status_error, daemonVars, sideVars, outVars>>

\* _stop_monitors for the next monitor whose status is running:
\* BaseMonitor.stop() sets the monitor's stop event.
StopMonitor ==
    /\ m_pc = "stop_monitors" /\ m_todo # <<>>
    /\ LET t == Head(m_todo) IN
        IF status_running[t]
        THEN /\ m_pc' = "mon_join"
             /\ mon_stop_event' = [mon_stop_event EXCEPT ![t] = mon_running[t] \/ @]
             /\ UNCHANGED m_todo
        ELSE /\ m_todo' = Tail(m_todo)
             /\ UNCHANGED <<m_pc, mon_stop_event>>
    /\ UNCHANGED <<ocVars, consumerVars, bpf, mon_running, mon_cleanups, events_dropped,
                   d_pc, next_id, d_events, pending_events, mgr_running, status_loaded, status_running,
                   exit_code, historyVars,
                   apiVars, auditVars, status_error, daemonVars, sideVars, outVars>>

\* monitor_thread.join(timeout=5.0) returns (thread ended, or timeout); then
\* running = False, the status is updated and the monitor is unregistered.
StopMonitorJoin ==
    /\ m_pc = "mon_join"
    /\ LET t == Head(m_todo) IN
        /\ mon_running' = [mon_running EXCEPT ![t] = FALSE]
        /\ status_running' = [status_running EXCEPT ![t] = FALSE]
        /\ unregister_monitor(t)
    /\ m_todo' = Tail(m_todo)
    /\ m_pc' = "stop_monitors"
    /\ UNCHANGED <<inputVars, oc_cleanups, oc_running, oc_stop_event, lock_holder, csv_rows,
                   events_buffer, console, consumerVars, bpf, mon_stop_event,
                   mon_cleanups, events_dropped, d_pc, next_id, d_events, pending_events, mgr_running,
                   status_loaded, exit_code, historyVars,
                   apiVars, bpf_compiles, csv_opened, d_orphans, status_error, daemonVars, sideVars, outVars>>

\* The end of eBPFMonitor.stop(): running = False; main.py's outer finally then
\* calls eBPFMonitor.cleanup().
StopDone ==
    /\ m_pc = "stop_monitors" /\ m_todo = <<>>
    /\ mgr_running' = FALSE
    /\ m_pc' = "cleanup"
    /\ m_todo' = selected_monitors
    /\ UNCHANGED <<ocVars, consumerVars, monitorVars, status_loaded, status_running,
                   exit_code, historyVars,
                   apiVars, auditVars, status_error, daemonVars, sideVars, outVars>>

\* eBPFMonitor.cleanup() for the next monitor: BaseMonitor.cleanup() releases
\* the kernel resources whenever self.bpf is not None.
CleanupMonitor ==
    /\ m_pc = "cleanup" /\ m_todo # <<>>
    /\ LET t == Head(m_todo) IN
        mon_cleanups' = [mon_cleanups EXCEPT ![t] = IF bpf[t] THEN @ + 1 ELSE @]
    /\ m_todo' = Tail(m_todo)
    /\ UNCHANGED <<ocVars, consumerVars, bpf, mon_running, mon_stop_event,
                   events_dropped, d_pc, next_id, d_events, pending_events, m_pc, mgr_running, status_loaded,
                   status_running, exit_code, historyVars,
                   apiVars, auditVars, status_error, daemonVars, sideVars, outVars>>

\* The end of eBPFMonitor.cleanup() and of main.py: the manager's dictionaries
\* are cleared and the process exits (0 unless an exit code was already set).
CleanupDone ==
    /\ m_pc = "cleanup" /\ m_todo = <<>>
    /\ m_pc' = "exited"
    /\ exit_code' = IF exit_code = -1 THEN 0 ELSE exit_code
    /\ status_loaded' = [t \in MonitorTypes |-> FALSE]
    /\ status_running' = [t \in MonitorTypes |-> FALSE]
    /\ status_error' = [t \in MonitorTypes |-> FALSE]
    /\ UNCHANGED <<ocVars, consumerVars, monitorVars, m_todo, mgr_running, historyVars,
                   apiVars, auditVars, daemonVars, sideVars, outVars>>

\* ------------------------------------------- consumer thread: _output_loop

\* `while not self.stop_event.is_set()`: leave the loop, or list the registered
\* types for one pass.
c_loop ==
    /\ c_pc = "loop" /\ m_pc # "exited"
    /\ IF oc_stop_event
       THEN c_pc' = "done" /\ UNCHANGED c_todo
       ELSE c_pc' = "for" /\ c_todo' = KeyList(oc_monitors)
    /\ UNCHANGED <<ocVars, c_type, c_batch, monitorVars, mainVars, historyVars,
                   apiVars, auditVars, daemonVars, sideVars, outVars>>

\* The next type of the pass: skipped when it has no buffer lock; otherwise the
\* lock is taken and _process_buffer pops one batch.  An empty buffer releases
\* the lock at once; a batch keeps it until the batch is written.
c_pop ==
    /\ c_pc = "for" /\ c_todo # <<>> /\ m_pc # "exited"
    /\ LET t == Head(c_todo) IN
        /\ c_todo' = Tail(c_todo)
        /\ IF t \notin monitor_locks
           THEN UNCHANGED <<c_pc, c_type, c_batch, lock_holder, events_buffer>>
           ELSE /\ lock_holder[t] = "none"
                /\ IF events_buffer[t] = <<>>
                   THEN UNCHANGED <<c_pc, c_type, c_batch, lock_holder, events_buffer>>
                   ELSE /\ lock_holder' = [lock_holder EXCEPT ![t] = "consumer"]
                        /\ c_batch' = PopBatch(events_buffer[t])
                        /\ events_buffer' = [events_buffer EXCEPT ![t] = AfterPop(@)]
                        /\ c_type' = t
                        /\ c_pc' = "write"
    /\ UNCHANGED <<inputVars, oc_cleanups, oc_running, oc_stop_event, oc_monitors, monitor_locks,
                   csv_files, csv_rows, output_mode, header_printed, console,
                   monitorVars, mainVars, historyVars,
                   apiVars, auditVars, daemonVars, sideVars, outVars>>

\* _process_event_batch on the popped batch, still under the buffer lock of the
\* type; the lock is released when _process_buffer returns.
c_write ==
    /\ c_pc = "write" /\ m_pc # "exited"
    /\ process_event_batch(c_type, c_batch)
    /\ lock_holder' = [lock_holder EXCEPT ![c_type] = "none"]
    /\ c_batch' = <<>>
    /\ c_type' = "none"
    /\ c_pc' = "for"
    /\ UNCHANGED <<inputVars, oc_cleanups, oc_running, oc_stop_event, oc_monitors, monitor_locks,
                   csv_files, events_buffer, output_mode, c_todo, monitorVars,
                   mainVars, historyVars,
                   apiVars, auditVars, daemonVars, sideVars>>

\* The end of a pass: the periodic _flush_all() and time.sleep(0.1).
c_sleep ==
    /\ c_pc = "for" /\ c_todo = <<>> /\ m_pc # "exited"
    /\ c_pc' = "loop"
    /\ UNCHANGED <<ocVars, c_todo, c_type, c_batch, monitorVars, mainVars, historyVars,
                   apiVars, auditVars, daemonVars, sideVars, outVars>>

\* ------------------------------------------ drain threads: __monitor_loop

\* `while not self.stop_event.is_set()` between two perf_buffer_poll(timeout=1000)
\* calls: the thread ends once the stop event is set.  (A poll that returns
\* with the event unset changes no state.)
d_exit(t) ==
    /\ d_pc[t] = "poll" /\ m_pc # "exited"
    /\ mon_stop_event[t]
    /\ d_pc' = [d_pc EXCEPT ![t] = "done"]
    /\ UNCHANGED <<ocVars, consumerVars, bpf, mon_running, mon_stop_event,
                   mon_cleanups, events_dropped, next_id, d_events, pending_events, mainVars,
                   historyVars, apiVars, auditVars, daemonVars, sideVars, outVars>>

\* perf_buffer_poll finds events in the ring buffer and calls
\* __handle_event_callback for each of them; handle_event returns at once when
\* the controller is not running or the type is not registered, and otherwise
\* goes on to the buffer lock.  A poll that began before the stop event was set
\* still delivers its events.
d_event(t) ==
    /\ d_pc[t] = "poll" /\ m_pc # "exited"
    /\ pending_events > 0
    /\ LET k == Min(poll_events, pending_events) IN
        /\ pending_events' = pending_events - k
        /\ next_id' = [next_id EXCEPT ![t] = @ + k]
        /\ IF oc_running /\ t \in oc_monitors
           THEN /\ d_pc' = [d_pc EXCEPT ![t] = "he_lock"]
                /\ d_events' = [d_events EXCEPT ![t] = [i \in 1..k |-> next_id[t] + i]]
           ELSE UNCHANGED <<d_pc, d_events>>
    /\ UNCHANGED <<ocVars, consumerVars, bpf, mon_running, mon_stop_event,
                   mon_cleanups, events_dropped, mainVars, historyVars,
                   apiVars, auditVars, daemonVars, sideVars, outVars>>

\* handle_event under the buffer lock of the type (created when missing):
\* events_buffer[t].append(event), a deque(maxlen=buffer_size), for the events
\* of the poll.  With poll_events = 1 this is one call of handle_event; the
\* callbacks of a longer burst follow each other without the consumer thread
\* (which sleeps 0.1 s between cycles) running in between.
handle_event(t) ==
    /\ d_pc[t] = "he_lock" /\ m_pc # "exited"
    /\ lock_holder[t] = "none" \/ t \notin monitor_locks
    /\ monitor_locks' = monitor_locks \cup {t}
    /\ lock_holder' = [lock_holder EXCEPT ![t] = "none"]
    /\ events_buffer' = [events_buffer EXCEPT ![t] = DequeExtend(@, d_events[t], buffer_size)]
    /\ pushed' = [pushed EXCEPT ![t] = @ \o d_events[t]]
    /\ head_dropped' = [head_dropped EXCEPT ![t] =
                            @ \o DequeDiscards(events_buffer[t], d_events[t], buffer_size)]
    /\ d_events' = [d_events EXCEPT ![t] = <<>>]
    /\ d_pc' = [d_pc EXCEPT ![t] = "poll"]
    /\ UNCHANGED <<inputVars, oc_cleanups, oc_running, oc_stop_event, oc_monitors, csv_files,
                   csv_rows, output_mode, header_printed, console, consumerVars, bpf,
                   mon_running, mon_stop_event, mon_cleanups, events_dropped, next_id, pending_events,
                   mainVars, at_stop,
                   apiVars, auditVars, daemonVars, sideVars, outVars>>

\* ---------------------------------------------------------- specification

MainThread ==
    \/ LoadMonitor \/ LoadDone \/ oc_start \/ StartMonitor \/ StartDone
    \/ KeyboardInterrupt \/ mgr_stop
    \/ oc_stop_begin \/ oc_stop_join \/ oc_stop_drain \/ oc_stop_flush
    \/ oc_stop_close \/ oc_stop_end
    \/ StopMonitor \/ StopMonitorJoin \/ StopDone \/ CleanupMonitor \/ CleanupDone

ConsumerThread == c_loop \/ c_pop \/ c_write \/ c_sleep

DrainThread(t) == d_exit(t) \/ d_event(t) \/ handle_event(t)

\* Keys the probe of an aggregate monitor can put into its statistics map.
MaxKeys == 3
Keys == 1..MaxKeys

\* No aggregate monitor drains.
AggIdle ==
    /\ stats_map = {}
    /\ agg_pc = "sleep"
    /\ agg_snapshot = {}
    /\ agg_todo = {}
    /\ agg_consumed = [k \in Keys |-> 0]
    /\ agg_records = [k \in Keys |-> 0]
    /\ agg_gone = {}

\* No interrupt or page-fault event was delivered.
TypeIdle ==
    /\ ev_monitor = "none"
    /\ ev_bits = {}
    /\ ev_config = {}
    /\ ev_handled = <<>>
    /\ ev_console = <<>>
    /\ ev_type_str = <<>>

\* No func monitor was built.
FuncIdle ==
    /\ kallsyms = <<>>
    /\ patterns = {}
    /\ probe_limit = 1
    /\ matched_functions = <<>>

\* No process is a target.
TargetIdle ==
    /\ target_processes = {}
    /\ target_pids = [t \in MonitorTypes |-> {}]
    /\ add_result = <<>>

\* The lock ids of the controller: buffer_mgmt_lock and console_lock are single
\* objects; a per-type lock is the object a threading.Lock() call returned.
NoLock == <<"none", 0>>
LockThreads == {"main", "consumer"} \cup MonitorTypes

LockIdle ==
    /\ lk_monitors = {}
    /\ lk_writers = {}
    /\ lk_mode = FILE_ONLY
    /\ lk_mon = [t \in MonitorTypes |-> 0]
    /\ lk_csv = [t \in MonitorTypes |-> 0]
    /\ lk_calls = 0
    /\ lk_stop = FALSE
    /\ lk_running = FALSE
    /\ th_prog = [th \in LockThreads |-> <<>>]
    /\ th_held = [th \in LockThreads |-> <<>>]
    /\ th_ref = [th \in LockThreads |-> NoLock]

MoreIdle == TypeIdle /\ FuncIdle /\ TargetIdle /\ LockIdle

\* A BioMonitor with its default configuration that was handed no row.
BioIdle ==
    /\ min_latency_us = 0
    /\ bio_count = 0
    /\ bio_total_ns = 0
    /\ bio_collect = <<>>

\* No signal was delivered.
SignalIdle == last_signal = "none"

\* No process uses the PID file.
DaemonIdle ==
    /\ path_inode = 0
    /\ inode_content = <<>>
    /\ inode_lock = <<>>
    /\ p_pc = <<>>
    /\ p_handle = <<>>
    /\ is_daemon = <<>>
    /\ shutdown_requested = <<>>
    /\ p_exit = <<>>
    /\ sd_pc = "idle"
    /\ sd_pid = 0
    /\ sd_polls = 0
    /\ sd_result = FALSE
    /\ sd_alive = TRUE
    /\ ds_reply = "none"

\* The state after construction: every selected monitor built, nothing loaded.
Init ==
    /\ selected_monitors = TypeOrder
    /\ buffer_size \in 1..MaxBufferSize
    /\ pending_events = MaxPush
    /\ poll_events = 1
    /\ write_faults = FALSE
    /\ PipelineState
    /\ DaemonIdle
    /\ AggIdle
    /\ SignalIdle
    /\ BioIdle
    /\ MoreIdle

Next ==
    \/ MainThread
    \/ ConsumerThread
    \/ \E t \in MonitorTypes : DrainThread(t)

Spec == Init /\ [][Next]_vars

\* One monitor whose FIFO can hold one record more than a batch, and a kernel
\* that has as many events as the FIFO holds ready for one poll.
BurstBuffer == batch_size + 1

BurstInit ==
    /\ selected_monitors = <<"exec">>
    /\ buffer_size = BurstBuffer
    /\ pending_events = BurstBuffer
    /\ poll_events = BurstBuffer
    /\ write_faults = FALSE
    /\ PipelineState
    /\ DaemonIdle
    /\ AggIdle
    /\ SignalIdle
    /\ BioIdle
    /\ MoreIdle

BurstSpec == BurstInit /\ [][Next]_vars

\* --------------------------------------- a client calling the classes

\* Calls a client makes, in any order, on the monitors and on the controller.
MaxCalls == 5

\* The call is made and recorded.
Called(method, t) ==
    /\ api_calls < MaxCalls
    /\ api_calls' = api_calls + 1
    /\ api_log' = IF api_log = <<>> THEN <<<<method, t>>>>
                  ELSE <<api_log[Len(api_log)], <<method, t>>>>

\* eBPFMonitor._load_monitor(t): load_ebpf_program() calls BPF(text=...) and
\* assigns self.bpf whatever the monitor's state; on True the status becomes
\* loaded and the monitor is registered with the controller.
call_load_monitor(t) ==
    /\ Called("load", t)
    /\ bpf_compiles' = [bpf_compiles EXCEPT ![t] = @ + 1]
    /\ \E outcome \in LoadOutcomes :
        /\ bpf' = [bpf EXCEPT ![t] = @ \/ outcome # "compile_failed"]
        /\ IF outcome = "loaded"
           THEN /\ status_loaded' = [status_loaded EXCEPT ![t] = TRUE]
                /\ status_error' = [status_error EXCEPT ![t] = FALSE]
                /\ register_monitor(t)
           ELSE /\ status_error' = [status_error EXCEPT ![t] = TRUE]
                /\ UNCHANGED <<status_loaded, oc_monitors, header_printed, hdr_count, csv_failed, monitor_locks,
                            lock_holder, output_mode, csv_files, csv_rows, csv_opened>>
    /\ UNCHANGED <<inputVars, oc_cleanups, oc_running, oc_stop_event, events_buffer,
                   console, consumerVars, mon_running, mon_stop_event, mon_cleanups,
                   events_dropped, d_pc, next_id, d_events, pending_events, m_pc, m_todo,
                   mgr_running, status_running, exit_code, historyVars, csv_closed,
                   d_orphans, daemonVars, sideVars>>

\* BaseMonitor.run(): False when self.bpf is None, True at once when running,
\* else the drain thread is started (or open_perf_buffer raises: False).
call_run(t) ==
    /\ Called("run", t)
    /\ IF ~bpf[t] \/ mon_running[t]
       THEN UNCHANGED <<mon_running, mon_stop_event, d_pc, d_orphans>>
       ELSE \E ok \in BOOLEAN :
            IF ok THEN StartThread(t)
            ELSE UNCHANGED <<mon_running, mon_stop_event, d_pc, d_orphans>>
    /\ UNCHANGED <<ocVars, consumerVars, bpf, mon_cleanups, events_dropped, next_id,
                   d_events, pending_events, mainVars, historyVars, bpf_compiles,
                   csv_opened, csv_closed, daemonVars, sideVars, outVars>>

\* stop() without the test of self.running.
StopsAnyway(t) == ~bpf[t]

\* The early returns of BaseMonitor.stop(): require_bpf_loaded finds self.bpf
\* None, or `if not self.running: return`.
StopReturnsAtOnce(t) == ~bpf[t] \/ ~mon_running[t]

\* BaseMonitor.stop(): returns at once when self.bpf is None or not running;
\* else it sets the stop event, joins monitor_thread for at most 5 s (the thread
\* has ended by then, or has not) and clears running.
call_stop(t) ==
    /\ Called("stop", t)
    /\ IF StopReturnsAtOnce(t)
       THEN UNCHANGED <<mon_running, mon_stop_event, d_pc>>
       ELSE /\ mon_stop_event' = [mon_stop_event EXCEPT ![t] = TRUE]
            /\ mon_running' = [mon_running EXCEPT ![t] = FALSE]
            /\ \E joined \in BOOLEAN :
                d_pc' = [d_pc EXCEPT ![t] = IF joined /\ ThreadAlive(t) THEN "done" ELSE @]
    /\ UNCHANGED <<ocVars, consumerVars, bpf, mon_cleanups, events_dropped, next_id,
                   d_events, pending_events, mainVars, historyVars, auditVars,
                   daemonVars, sideVars, outVars>>

\* BaseMonitor.cleanup(): whenever self.bpf is not None the maps are cleared and
\* bpf.cleanup() is called; self.bpf is left as it is.
call_cleanup(t) ==
    /\ Called("cleanup", t)
    /\ mon_cleanups' = [mon_cleanups EXCEPT ![t] = IF bpf[t] THEN @ + 1 ELSE @]
    /\ UNCHANGED <<ocVars, consumerVars, bpf, mon_running, mon_stop_event,
                   events_dropped, d_pc, next_id, d_events, pending_events, mainVars,
                   historyVars, auditVars, daemonVars, sideVars, outVars>>

\* OutputController.register_monitor(t, monitor).
call_register(t) ==
    /\ Called("register", t)
    /\ register_monitor(t)
    /\ UNCHANGED <<inputVars, oc_cleanups, oc_running, oc_stop_event, events_buffer,
                   console, consumerVars, monitorVars, mainVars, historyVars,
                   bpf_compiles, csv_closed, d_orphans, daemonVars, sideVars>>

\* OutputController.unregister_monitor(t).
call_unregister(t) ==
    /\ Called("unregister", t)
    /\ unregister_monitor(t)
    /\ UNCHANGED <<inputVars, oc_cleanups, oc_running, oc_stop_event, lock_holder,
                   csv_rows, events_buffer, console, consumerVars, monitorVars, mainVars,
                   historyVars, bpf_compiles, csv_opened, d_orphans, daemonVars, sideVars, outVars>>

\* OutputController.start().
call_oc_start ==
    /\ Called("oc_start", "none")
    /\ IF oc_running
       THEN UNCHANGED <<oc_stop_event, c_pc, oc_running>>
       ELSE /\ oc_stop_event' = FALSE
            /\ c_pc' = "loop"
            /\ oc_running' = TRUE
    /\ UNCHANGED <<inputVars, oc_cleanups, oc_monitors, monitor_locks, lock_holder,
                   csv_files, csv_rows, events_buffer, output_mode, header_printed,
                   console, c_todo, c_type, c_batch, monitorVars, mainVars, historyVars,
                   auditVars, daemonVars, sideVars, outVars>>

\* OutputController.stop(): nothing when not running; else the stop event is
\* set, the consumer thread ends within the join, the final drain finds the
\* FIFOs empty (no drain thread pushes here), every file in csv_files is closed
\* and forgotten, and running is cleared.
call_oc_stop ==
    /\ Called("oc_stop", "none")
    /\ IF ~oc_running
       THEN UNCHANGED <<oc_stop_event, c_pc, oc_running, csv_files, csv_closed>>
       ELSE /\ oc_stop_event' = TRUE
            /\ c_pc' = "done"
            /\ csv_closed' = [t \in MonitorTypes |->
                                IF t \in csv_files THEN csv_closed[t] + 1 ELSE csv_closed[t]]
            /\ csv_files' = {}
            /\ oc_running' = FALSE
    /\ UNCHANGED <<inputVars, oc_cleanups, oc_monitors, monitor_locks, lock_holder,
                   csv_rows, events_buffer, output_mode, header_printed, console,
                   c_todo, c_type, c_batch, monitorVars, mainVars, historyVars,
                   bpf_compiles, csv_opened, d_orphans, daemonVars, sideVars, outVars>>

\* OutputController.cleanup(): csv_files, csv_writers, events_buffer and
\* monitors are cleared; no file is closed and the mode is not updated.
call_oc_cleanup ==
    /\ Called("oc_cleanup", "none")
    /\ csv_files' = {}
    /\ events_buffer' = [t \in MonitorTypes |-> <<>>]
    /\ oc_monitors' = {}
    /\ oc_cleanups' = oc_cleanups + 1
    /\ UNCHANGED <<inputVars, oc_running, oc_stop_event, monitor_locks, lock_holder,
                   csv_rows, output_mode, header_printed, console, consumerVars,
                   monitorVars, mainVars, historyVars, auditVars, daemonVars, sideVars, outVars>>

\* A drain thread that monitor_thread no longer names leaves its loop once it
\* finds the stop event set.
d_orphan_exit(t) ==
    /\ d_orphans[t] > 0
    /\ mon_stop_event[t]
    /\ d_orphans' = [d_orphans EXCEPT ![t] = @ - 1]
    /\ UNCHANGED <<ocVars, consumerVars, monitorVars, mainVars, historyVars,
                   bpf_compiles, csv_opened, csv_closed, apiVars, daemonVars, sideVars, outVars>>

MonitorCalls(t) ==
    \/ call_load_monitor(t) \/ call_run(t) \/ call_stop(t) \/ call_cleanup(t)

ControllerCalls ==
    \/ \E t \in MonitorTypes : call_register(t) \/ call_unregister(t)
    \/ call_oc_start \/ call_oc_stop \/ call_oc_cleanup

\* The state after construction; no event arrives from the kernel.
ApiInit ==
    /\ selected_monitors = TypeOrder
    /\ buffer_size = 1
    /\ pending_events = 0
    /\ poll_events = 1
    /\ write_faults = FALSE
    /\ PipelineState
    /\ DaemonIdle
    /\ AggIdle
    /\ SignalIdle
    /\ BioIdle
    /\ MoreIdle

ApiNext ==
    \/ \E t \in MonitorTypes : MonitorCalls(t)
    \/ ControllerCalls
    \/ \E t \in MonitorTypes : d_exit(t) \/ d_orphan_exit(t)

ApiSpec == ApiInit /\ [][ApiNext]_vars

\* ------------------------------------------- the controller and its consumer
\* A client of the OutputController alone: it registers and unregisters
\* monitors, starts the controller and hands it records, in any order, while
\* the consumer thread of the controller runs its passes.

\* OutputController.handle_event(t, event): nothing when the controller is not
\* running or t is not registered; otherwise the record is appended to the
\* FIFO of t under the buffer lock of t.
call_handle_event(t) ==
    /\ Called("handle_event", t)
    /\ IF ~oc_running \/ t \notin oc_monitors
       THEN UNCHANGED <<monitor_locks, lock_holder, events_buffer, pushed, head_dropped>>
       ELSE /\ lock_holder[t] = "none" \/ t \notin monitor_locks
            /\ monitor_locks' = monitor_locks \cup {t}
            /\ lock_holder' = [lock_holder EXCEPT ![t] = "none"]
            /\ events_buffer' = [events_buffer EXCEPT ![t] =
                                    DequeExtend(@, <<api_calls>>, buffer_size)]
            /\ pushed' = [pushed EXCEPT ![t] = Append(@, api_calls)]
            /\ head_dropped' = [head_dropped EXCEPT ![t] =
                                    @ \o DequeDiscards(events_buffer[t], <<api_calls>>,
                                                       buffer_size)]
    /\ UNCHANGED <<inputVars, oc_cleanups, oc_running, oc_stop_event, oc_monitors, csv_files,
                   csv_rows, output_mode, header_printed, console, consumerVars,
                   monitorVars, mainVars, at_stop, auditVars, daemonVars, sideVars,
                   outVars>>

OutputInit ==
    /\ selected_monitors = TypeOrder
    /\ buffer_size = MaxBufferSize
    /\ pending_events = 0
    /\ poll_events = 1
    /\ write_faults = TRUE
    /\ PipelineState
    /\ DaemonIdle
    /\ AggIdle
    /\ SignalIdle
    /\ BioIdle
    /\ MoreIdle

OutputNext ==
    \/ \E t \in MonitorTypes : call_register(t) \/ call_unregister(t) \/ call_handle_event(t)
    \/ call_oc_start
    \/ c_loop \/ c_pop \/ c_write \/ c_sleep

OutputSpec == OutputInit /\ [][OutputNext]_vars

\* ------------------------------------------------------- target processes
\* A client loads monitors and adds target processes, in any order.

\* Processes that can be made targets.
MaxPids == 2
Pids == 1..MaxPids

\* The monitors _add_target_process calls: those whose status says loaded.
LoadedMonitors == {t \in MonitorTypes : status_loaded[t]}

\* The rollback of a failed add: remove_target_process(pid) on every monitor
\* whose add_target_process returned True in this call.
Rollback(added, pid) ==
    [t \in MonitorTypes |-> IF t \in added THEN target_pids[t] \ {pid} ELSE target_pids[t]]

\* eBPFMonitor._add_target_process(pid), under target_lock: every loaded
\* monitor is asked to add pid (the write to its target_pids kernel map may
\* raise: that monitor returns False and keeps its set); when all succeeded
\* pid is recorded in target_processes, else the monitors that succeeded are
\* rolled back.
call_add_target_process(pid) ==
    /\ Called("add_target", pid)
    /\ \E failed \in SUBSET LoadedMonitors :
        /\ \A t \in LoadedMonitors : ~bpf[t] => t \in failed
        /\ LET added == LoadedMonitors \ failed
               after == [t \in MonitorTypes |->
                            IF t \in added THEN target_pids[t] \cup {pid}
                            ELSE target_pids[t]]
           IN  IF failed = {}
               THEN /\ target_pids' = after
                    /\ target_processes' = target_processes \cup {pid}
                    /\ add_result' = <<TRUE>>
               ELSE /\ target_pids' = Rollback(added, pid)
                    /\ add_result' = <<FALSE>>
                    /\ UNCHANGED target_processes
    /\ UNCHANGED <<ocVars, consumerVars, monitorVars, mainVars, historyVars, auditVars,
                   outVars, daemonVars, aggVars, signalVars, bioVars, typeVars, funcVars,
                   lockVars>>

TargetNext ==
    \/ \E t \in MonitorTypes : call_load_monitor(t)
    \/ \E pid \in Pids : call_add_target_process(pid)

TargetSpec == ApiInit /\ [][TargetNext]_vars

\* ------------------------------------------------------------ lock protocol
\* The threads of one process whose controller has been started, and the locks
\* of the controller.  The main thread calls register_monitor,
\* unregister_monitor, get_status and stop; the consumer thread runs the passes
\* of _output_loop; the drain thread of each monitor calls handle_event.  A call
\* is the sequence of its lock steps; the data the calls move is left out.

\* Calls the main thread makes on the controller.
MaxLockCalls == 2

buffer_mgmt_lock == <<"buffer_mgmt", 0>>
console_lock == <<"console", 0>>

\* One step of a call: an operation, the monitor type it is about and, for a
\* test, the number of steps the test skips.
Step(o, t, n) == [op |-> o, t |-> t, n |-> n]
Acquire(name) == Step(name, "", 0)
Release == Step("release", "", 0)

\* register_monitor(t): `with self.buffer_mgmt_lock`, the body, the release.
register_monitor_locks(t) ==
    <<Acquire("acquire_mgmt"), Step("register", t, 0), Release>>

\* unregister_monitor(t).
unregister_monitor_locks(t) ==
    <<Acquire("acquire_mgmt"), Step("unregister", t, 0), Release>>

\* get_status().
get_status_locks == <<Acquire("acquire_mgmt"), Release>>

\* handle_event(t) past its two early returns: the buffer lock of t is looked
\* up; when there is none it is created under buffer_mgmt_lock, which is
\* released before the buffer lock is taken; the append; the release.
handle_event_locks(t) ==
    <<Step("get_monitor_lock", t, 0),
      Step("skip_if_ref", "", 3),
      Acquire("acquire_mgmt"),
      Step("setdefault_monitor_lock", t, 0),
      Release,
      Acquire("acquire_ref"),
      Release>>

\* _write_csv_batch(t): the CSV lock of t is looked up; nothing is done without
\* it or without a writer; else the rows are written under the lock.
write_csv_batch_locks(t) ==
    <<Step("get_csv_lock", t, 0),
      Step("skip_unless_ref", "", 3),
      Step("skip_unless_writer", t, 2),
      Acquire("acquire_ref"),
      Release>>

\* _write_console_batch: the lines are printed under console_lock.
write_console_batch_locks == <<Acquire("acquire_console"), Release>>

\* _process_event_batch(t): the CSV batch when t has a writer, then the console
\* batch when the mode is FILE_AND_CONSOLE.
process_event_batch_locks(t) ==
    <<Step("skip_unless_writer", t, Len(write_csv_batch_locks(t)))>>
    \o write_csv_batch_locks(t)
    \o <<Step("skip_unless_console", "", Len(write_console_batch_locks))>>
    \o write_console_batch_locks

\* _process_buffer(t): nothing for an empty FIFO, else one batch.
process_buffer_locks(t, nonempty) ==
    IF nonempty THEN process_event_batch_locks(t) ELSE <<>>

\* One type of a pass of _output_loop or of the final drain of stop(): the
\* buffer lock of t is looked up and, when there is one, _process_buffer runs
\* under it.
drain_locks(t, nonempty) ==
    LET body == <<Acquire("acquire_ref")>> \o process_buffer_locks(t, nonempty) \o <<Release>>
    IN  <<Step("get_monitor_lock", t, 0), Step("skip_unless_ref", "", Len(body))>> \o body

\* A _flush_all that takes the buffer lock of t inside the CSV lock of t.
flush_all_nested(t) ==
    <<Step("get_csv_lock", t, 0),
      Step("skip_unless_ref", "", 6),
      Acquire("acquire_ref"),
      Step("get_monitor_lock", t, 0),
      Step("skip_unless_ref", "", 2),
      Acquire("acquire_ref"),
      Release,
      Release>>

\* _flush_all for one file: the flush under the CSV lock of t when there is one
\* (and without a lock otherwise).
flush_all_locks(t) ==
    <<Step("get_csv_lock", t, 0),
      Step("skip_unless_ref", "", 2),
      Acquire("acquire_ref"),
      Release>>

\* The steps of f(t) for every type of S, in the order of the dict.
RECURSIVE Concat(_)
Concat(progs) == IF progs = <<>> THEN <<>> ELSE Head(progs) \o Concat(Tail(progs))

ForEachType(S, f(_)) ==
    Concat([i \in 1..Len(TypeOrder) |->
                IF TypeOrder[i] \in S THEN f(TypeOrder[i]) ELSE <<>>])

\* One pass of _output_loop: every registered type is drained (full is the set
\* of types whose FIFO holds records), then _flush_all when the interval has
\* elapsed.
output_pass_locks(full, flush) ==
    ForEachType(lk_monitors, LAMBDA t : drain_locks(t, t \in full))
    \o (IF flush THEN ForEachType(lk_writers, flush_all_locks) ELSE <<>>)

\* stop(): the stop event, the join with its timeout (no lock is held while it
\* waits), the final drain, _flush_all, the closing of the files.
stop_locks(full) ==
    <<Step("set_stop_event", "", 0)>>
    \o ForEachType(lk_monitors, LAMBDA t : drain_locks(t, t \in full))
    \o ForEachType(lk_writers, flush_all_locks)
    \o <<Step("close_files", "", 0)>>

\* ---- state of the locks

HeldBy(th) == {th_held[th][i] : i \in 1..Len(th_held[th])}
Holders(l) == {th \in LockThreads : l \in HeldBy(th)}

NextStep(th) == Head(th_prog[th])
AtStep(th, ops) == th_prog[th] # <<>> /\ NextStep(th).op \in ops

AcquireOps == {"acquire_mgmt", "acquire_console", "acquire_ref"}
SkipOps == {"skip_if_ref", "skip_unless_ref", "skip_unless_writer", "skip_unless_console"}

\* The lock the next acquire of th takes.
Wanted(th) ==
    CASE NextStep(th).op = "acquire_mgmt" -> buffer_mgmt_lock
      [] NextStep(th).op = "acquire_console" -> console_lock
      [] OTHER -> th_ref[th]

\* Whether the test th is at skips.
Skips(th) ==
    CASE NextStep(th).op = "skip_if_ref" -> th_ref[th] # NoLock
      [] NextStep(th).op = "skip_unless_ref" -> th_ref[th] = NoLock
      [] NextStep(th).op = "skip_unless_writer" -> NextStep(th).t \notin lk_writers
      [] OTHER -> lk_mode # FILE_AND_CONSOLE

\* threading.Lock(): an object no dict entry and no thread refers to.  Objects
\* nothing refers to any more are not told apart, so the least unused id is
\* taken.
LocksInUse ==
    {lk_mon[t] : t \in MonitorTypes} \cup {lk_csv[t] : t \in MonitorTypes}
    \cup {th_ref[th][2] : th \in LockThreads}
    \cup UNION {{l[2] : l \in HeldBy(th)} : th \in LockThreads}
NewLock == CHOOSE id \in 1..(Cardinality(LocksInUse) + 1) : id \notin LocksInUse

nonLockVars == <<pipelineVars, daemonVars, aggVars, signalVars, bioVars, typeVars, funcVars,
                 targetVars>>

Advance(th, n) == th_prog' = [th_prog EXCEPT ![th] = SubSeq(@, n + 1, Len(@))]

\* ---- the calls

begin_register_monitor(t) ==
    /\ th_prog["main"] = <<>> /\ lk_calls < MaxLockCalls
    /\ lk_calls' = lk_calls + 1
    /\ th_prog' = [th_prog EXCEPT !["main"] = register_monitor_locks(t)]
    /\ UNCHANGED <<nonLockVars, lk_monitors, lk_writers, lk_mode, lk_mon, lk_csv, lk_stop,
                   lk_running, th_held, th_ref>>

begin_unregister_monitor(t) ==
    /\ th_prog["main"] = <<>> /\ lk_calls < MaxLockCalls
    /\ lk_calls' = lk_calls + 1
    /\ th_prog' = [th_prog EXCEPT !["main"] = unregister_monitor_locks(t)]
    /\ UNCHANGED <<nonLockVars, lk_monitors, lk_writers, lk_mode, lk_mon, lk_csv, lk_stop,
                   lk_running, th_held, th_ref>>

begin_get_status ==
    /\ th_prog["main"] = <<>> /\ lk_calls < MaxLockCalls
    /\ lk_calls' = lk_calls + 1
    /\ th_prog' = [th_prog EXCEPT !["main"] = get_status_locks]
    /\ UNCHANGED <<nonLockVars, lk_monitors, lk_writers, lk_mode, lk_mon, lk_csv, lk_stop,
                   lk_running, th_held, th_ref>>

\* stop() returns at once when the controller is not running.
begin_stop ==
    /\ th_prog["main"] = <<>> /\ lk_calls < MaxLockCalls
    /\ lk_running
    /\ lk_calls' = lk_calls + 1
    /\ \E full \in SUBSET lk_monitors :
        th_prog' = [th_prog EXCEPT !["main"] = stop_locks(full)]
    /\ UNCHANGED <<nonLockVars, lk_monitors, lk_writers, lk_mode, lk_mon, lk_csv, lk_stop,
                   lk_running, th_held, th_ref>>

\* The drain thread of t hands a record over; handle_event returns at once
\* when the controller is not running or t is not registered.
begin_handle_event(t) ==
    /\ th_prog[t] = <<>>
    /\ lk_running /\ t \in lk_monitors
    /\ th_prog' = [th_prog EXCEPT ![t] = handle_event_locks(t)]
    /\ UNCHANGED <<nonLockVars, lk_monitors, lk_writers, lk_mode, lk_mon, lk_csv, lk_calls,
                   lk_stop, lk_running, th_held, th_ref>>

\* The consumer begins a pass while the stop event is not set.
begin_output_pass ==
    /\ th_prog["consumer"] = <<>>
    /\ ~lk_stop
    /\ \E full \in SUBSET lk_monitors, flush \in BOOLEAN :
        th_prog' = [th_prog EXCEPT !["consumer"] = output_pass_locks(full, flush)]
    /\ UNCHANGED <<nonLockVars, lk_monitors, lk_writers, lk_mode, lk_mon, lk_csv, lk_calls,
                   lk_stop, lk_running, th_held, th_ref>>

\* ---- the steps

\* Lock.acquire(): the thread waits until no thread holds the lock (a
\* threading.Lock is not reentrant).  The local that named the lock is not
\* read again.
do_acquire(th) ==
    /\ AtStep(th, AcquireOps)
    /\ Holders(Wanted(th)) = {}
    /\ th_held' = [th_held EXCEPT ![th] = Append(@, Wanted(th))]
    /\ th_ref' = [th_ref EXCEPT ![th] = NoLock]
    /\ Advance(th, 1)
    /\ UNCHANGED <<nonLockVars, lk_monitors, lk_writers, lk_mode, lk_mon, lk_csv, lk_calls,
                   lk_stop, lk_running>>

\* The end of a `with` block: the innermost lock is released.
do_release(th) ==
    /\ AtStep(th, {"release"})
    /\ th_held' = [th_held EXCEPT ![th] = SubSeq(@, 1, Len(@) - 1)]
    /\ Advance(th, 1)
    /\ UNCHANGED <<nonLockVars, lk_monitors, lk_writers, lk_mode, lk_mon, lk_csv, lk_calls,
                   lk_stop, lk_running, th_ref>>

\* self.monitor_locks.get(t) or self.csv_locks.get(t).
do_get_lock(th) ==
    /\ AtStep(th, {"get_monitor_lock", "get_csv_lock"})
    /\ LET t == NextStep(th).t
           id == IF NextStep(th).op = "get_monitor_lock" THEN lk_mon[t] ELSE lk_csv[t]
           kind == IF NextStep(th).op = "get_monitor_lock" THEN "monitor" ELSE "csv"
       IN  th_ref' = [th_ref EXCEPT ![th] = IF id = 0 THEN NoLock ELSE <<kind, id>>]
    /\ Advance(th, 1)
    /\ UNCHANGED <<nonLockVars, lk_monitors, lk_writers, lk_mode, lk_mon, lk_csv, lk_calls,
                   lk_stop, lk_running, th_held>>

\* A test: the steps it guards are skipped or entered; the local a skipped
\* `with` would have used is not read again (handle_event skips the creation
\* of the lock, not the `with`).
do_skip(th) ==
    /\ AtStep(th, SkipOps)
    /\ Advance(th, IF Skips(th) THEN NextStep(th).n + 1 ELSE 1)
    /\ th_ref' = [th_ref EXCEPT ![th] =
                    IF Skips(th) /\ NextStep(th).op # "skip_if_ref" THEN NoLock ELSE @]
    /\ UNCHANGED <<nonLockVars, lk_monitors, lk_writers, lk_mode, lk_mon, lk_csv, lk_calls,
                   lk_stop, lk_running, th_held>>

\* handle_event under buffer_mgmt_lock: the buffer lock of t is created when
\* it is still missing, and read.
do_setdefault(th) ==
    /\ AtStep(th, {"setdefault_monitor_lock"})
    /\ LET t == NextStep(th).t
           id == IF lk_mon[t] = 0 THEN NewLock ELSE lk_mon[t]
       IN  /\ lk_mon' = [lk_mon EXCEPT ![t] = id]
           /\ th_ref' = [th_ref EXCEPT ![th] = <<"monitor", id>>]
    /\ Advance(th, 1)
    /\ UNCHANGED <<nonLockVars, lk_monitors, lk_writers, lk_mode, lk_csv, lk_calls, lk_stop,
                   lk_running, th_held>>

\* The body of register_monitor: the monitor, two new locks, the mode, the file.
do_register(th) ==
    /\ AtStep(th, {"register"})
    /\ LET t == NextStep(th).t
       IN  /\ lk_monitors' = lk_monitors \cup {t}
           /\ lk_mon' = [lk_mon EXCEPT ![t] = NewLock]
           /\ lk_csv' = [lk_csv EXCEPT ![t] = NewLock]
           /\ lk_mode' = ModeFor(lk_monitors \cup {t})
           /\ lk_writers' = lk_writers \cup {t}
    /\ Advance(th, 1)
    /\ UNCHANGED <<nonLockVars, lk_calls, lk_stop, lk_running, th_held, th_ref>>

\* The body of unregister_monitor, for a registered type.
do_unregister(th) ==
    /\ AtStep(th, {"unregister"})
    /\ LET t == NextStep(th).t
       IN  IF t \in lk_monitors
           THEN /\ lk_monitors' = lk_monitors \ {t}
                /\ lk_mon' = [lk_mon EXCEPT ![t] = 0]
                /\ lk_csv' = [lk_csv EXCEPT ![t] = 0]
                /\ lk_mode' = ModeFor(lk_monitors \ {t})
                /\ lk_writers' = lk_writers \ {t}
           ELSE UNCHANGED <<lk_monitors, lk_mon, lk_csv, lk_mode, lk_writers>>
    /\ Advance(th, 1)
    /\ UNCHANGED <<nonLockVars, lk_calls, lk_stop, lk_running, th_held, th_ref>>

\* self.stop_event.set().
do_set_stop_event(th) ==
    /\ AtStep(th, {"set_stop_event"})
    /\ lk_stop' = TRUE
    /\ Advance(th, 1)
    /\ UNCHANGED <<nonLockVars, lk_monitors, lk_writers, lk_mode, lk_mon, lk_csv, lk_calls,
                   lk_running, th_held, th_ref>>

\* The end of stop(): every file is closed and forgotten, running is cleared.
do_close_files(th) ==
    /\ AtStep(th, {"close_files"})
    /\ lk_writers' = {}
    /\ lk_running' = FALSE
    /\ Advance(th, 1)
    /\ UNCHANGED <<nonLockVars, lk_monitors, lk_mode, lk_mon, lk_csv, lk_calls,
                   lk_stop, th_held, th_ref>>

LockInit ==
    /\ selected_monitors = TypeOrder
    /\ buffer_size = 1
    /\ pending_events = 0
    /\ poll_events = 1
    /\ write_faults = FALSE
    /\ PipelineState
    /\ DaemonIdle
    /\ AggIdle
    /\ SignalIdle
    /\ BioIdle
    /\ TypeIdle
    /\ FuncIdle
    /\ TargetIdle
    /\ lk_monitors = {}
    /\ lk_writers = {}
    /\ lk_mode = FILE_ONLY
    /\ lk_mon = [t \in MonitorTypes |-> 0]
    /\ lk_csv = [t \in MonitorTypes |-> 0]
    /\ lk_calls = 0
    /\ lk_stop = FALSE
    /\ lk_running = TRUE
    /\ th_prog = [th \in LockThreads |-> <<>>]
    /\ th_held = [th \in LockThreads |-> <<>>]
    /\ th_ref = [th \in LockThreads |-> NoLock]

LockNext ==
    \/ \E t \in MonitorTypes : begin_register_monitor(t) \/ begin_unregister_monitor(t)
    \/ begin_get_status
    \/ begin_stop
    \/ \E t \in MonitorTypes : begin_handle_event(t)
    \/ begin_output_pass
    \/ \E th \in LockThreads :
        \/ do_acquire(th) \/ do_release(th) \/ do_get_lock(th) \/ do_skip(th)
        \/ do_setdefault(th) \/ do_register(th) \/ do_unregister(th)
        \/ do_set_stop_event(th) \/ do_close_files(th)

LockSpec == LockInit /\ [][LockNext]_vars

\* ------------------------------------ aggregate monitor: snapshot and drain

\* A lookup that reports a value for every key of the snapshot.
FoundAlways(k) == TRUE

\* The atomic lookup-and-delete finds the key: it is still in the map.
Found(k) == k \in stats_map

\* The probe fires in the kernel and updates the entry of key k.
kernel_update(k) ==
    /\ stats_map' = stats_map \cup {k}
    /\ UNCHANGED <<pipelineVars, daemonVars, signalVars, bioVars, moreVars, agg_pc, agg_snapshot, agg_todo,
                   agg_consumed, agg_records, agg_gone>>

\* Another party deletes key k from the map.
kernel_delete(k) ==
    /\ k \in stats_map
    /\ stats_map' = stats_map \ {k}
    /\ agg_gone' = IF agg_pc = "drain" /\ k \in agg_todo THEN agg_gone \cup {k} ELSE agg_gone
    /\ UNCHANGED <<pipelineVars, daemonVars, signalVars, bioVars, moreVars, agg_pc, agg_snapshot, agg_todo,
                   agg_consumed, agg_records>>

\* Step 1 of a drain cycle, after the sleep of `interval`: the keys now in the
\* map are listed.
snapshot_keys ==
    /\ agg_pc = "sleep"
    /\ agg_pc' = "drain"
    /\ agg_snapshot' = stats_map
    /\ agg_todo' = stats_map
    /\ agg_consumed' = [k \in Keys |-> 0]
    /\ agg_records' = [k \in Keys |-> 0]
    /\ agg_gone' = {}
    /\ UNCHANGED <<pipelineVars, daemonVars, signalVars, bioVars, moreVars, stats_map>>

\* Steps 2 and 3 for one key of the snapshot: lookup-and-delete returns the
\* prior value and the record built from it goes to the sink if should_emit
\* accepts it; a key deleted since the snapshot is skipped.
lookup_and_delete(k) ==
    /\ agg_pc = "drain"
    /\ k \in agg_todo
    /\ agg_todo' = agg_todo \ {k}
    /\ IF Found(k)
       THEN /\ stats_map' = stats_map \ {k}
            /\ agg_consumed' = [agg_consumed EXCEPT ![k] = @ + 1]
            /\ \E should_emit \in BOOLEAN :
                agg_records' = [agg_records EXCEPT ![k] = IF should_emit THEN @ + 1 ELSE @]
       ELSE UNCHANGED <<stats_map, agg_consumed, agg_records>>
    /\ UNCHANGED <<pipelineVars, daemonVars, signalVars, bioVars, moreVars, agg_pc, agg_snapshot, agg_gone>>

\* Every key of the snapshot has been visited: the loop sleeps again.
cycle_end ==
    /\ agg_pc = "drain"
    /\ agg_todo = {}
    /\ agg_pc' = "sleep"
    /\ UNCHANGED <<pipelineVars, daemonVars, signalVars, bioVars, moreVars, stats_map, agg_snapshot, agg_todo,
                   agg_consumed, agg_records, agg_gone>>

AggDrainThread ==
    \/ snapshot_keys
    \/ \E k \in Keys : lookup_and_delete(k)
    \/ cycle_end

AggInit ==
    /\ selected_monitors = TypeOrder
    /\ buffer_size = 1
    /\ pending_events = 0
    /\ poll_events = 1
    /\ write_faults = FALSE
    /\ PipelineState
    /\ DaemonIdle
    /\ AggIdle
    /\ SignalIdle
    /\ BioIdle
    /\ MoreIdle

AggNext ==
    \/ \E k \in Keys : kernel_update(k)
    \/ \E k \in Keys : kernel_delete(k)
    \/ AggDrainThread

AggSpec == AggInit /\ [][AggNext]_vars

\* The drain thread is scheduled.
AggFairSpec == AggSpec /\ WF_vars(AggDrainThread)

\* ------------------------------------------------- the latency filter of bio

\* Largest count of an aggregate row, and largest min_latency_us configured.
MaxCount == 2
MaxLatencyUs == 2

\* BioDataUtils.NS_TO_US
NS_TO_US == 1000

\* Totals up to one nanosecond above the largest threshold times the largest count.
MaxTotalNs == NS_TO_US * MaxLatencyUs * MaxCount + 1

\* `value.total_ns / value.count if value.count > 0 else 0`: the quotient of
\* the true division, kept as numerator and denominator.
avg_ns(total_ns, count) == IF count > 0 THEN <<total_ns, count>> ELSE <<0, 1>>

\* `avg <= limit` for a quotient avg.
QuotientAtMost(avg, limit) == avg[1] <= limit * avg[2]

\* `avg < limit` for a quotient avg.
QuotientLess(avg, limit) == avg[1] < limit * avg[2]

\* should_collect(key, value) of BioMonitor.
should_collect(total_ns, count) ==
    IF min_latency_us > 0
    THEN IF QuotientLess(avg_ns(total_ns, count), min_latency_us * NS_TO_US)
         THEN FALSE
         ELSE TRUE
    ELSE TRUE

\* The filter is applied to the row it was handed.
call_should_collect ==
    /\ bio_collect = <<>>
    /\ bio_collect' = <<should_collect(bio_total_ns, bio_count)>>
    /\ UNCHANGED <<pipelineVars, daemonVars, aggVars, signalVars, moreVars, min_latency_us, bio_count,
                   bio_total_ns>>

\* Any validated configuration (min_latency_us >= 0) and any aggregate row.
FilterInit ==
    /\ selected_monitors = TypeOrder
    /\ buffer_size = 1
    /\ pending_events = 0
    /\ poll_events = 1
    /\ write_faults = FALSE
    /\ PipelineState
    /\ DaemonIdle
    /\ AggIdle
    /\ SignalIdle
    /\ min_latency_us \in 0..MaxLatencyUs
    /\ bio_count \in 0..MaxCount
    /\ bio_total_ns \in 0..MaxTotalNs
    /\ bio_collect = <<>>
    /\ MoreIdle

FilterNext == call_should_collect

FilterSpec == FilterInit /\ [][FilterNext]_vars

\* ------------------------------------ interrupt and page-fault event types
\* A bit mask is the set of the names of its set bits; a text is the sequence
\* of its tokens (joined with "|" in the program).

\* The IRQ_TYPE_* bits of InterruptMonitor.
IrqBits == {"HARDWARE", "SOFTWARE", "TIMER", "NETWORK", "BLOCK", "MIGRATE", "AFFINITY"}

\* The monitor_* switches of InterruptMonitor.
IrqSwitches == {"monitor_hardware", "monitor_software", "monitor_timer",
                "monitor_network", "monitor_block", "monitor_migration"}

\* The FAULT_TYPE_* bits of PageFaultMonitor.
FaultBits == {"MINOR", "MAJOR", "WRITE", "USER", "SHARED", "SWAP"}

\* The monitor_* switches of PageFaultMonitor.
FaultSwitches == {"monitor_major_faults", "monitor_minor_faults", "monitor_write_faults",
                  "monitor_user_faults", "monitor_kernel_faults"}

\* The tokens of order whose bit is set, in that order.
Tokens(order, bits) == SelectSeq(order, LAMBDA b : b \in bits)

\* InterruptMonitor._should_handle_event.
irq_should_handle_event(config, bits) ==
    \/ "monitor_hardware" \in config /\ "HARDWARE" \in bits
    \/ "monitor_software" \in config /\ "SOFTWARE" \in bits
    \/ "monitor_timer" \in config /\ "TIMER" \in bits
    \/ "monitor_network" \in config /\ "NETWORK" \in bits
    \/ "monitor_block" \in config /\ "BLOCK" \in bits
    \/ "monitor_migration" \in config /\ "MIGRATE" \in bits

\* PageFaultMonitor._should_handle_event.
fault_should_handle_event(config, bits) ==
    IF "MAJOR" \in bits /\ "monitor_major_faults" \notin config THEN FALSE
    ELSE IF "MINOR" \in bits /\ "monitor_minor_faults" \notin config THEN FALSE
    ELSE IF "WRITE" \in bits /\ "monitor_write_faults" \notin config THEN FALSE
    ELSE IF "USER" \in bits /\ "monitor_user_faults" \notin config THEN FALSE
    ELSE IF "USER" \notin bits /\ "monitor_kernel_faults" \notin config THEN FALSE
    ELSE TRUE

\* InterruptEvent.irq_type_str: every set bit in declaration order, or UNKNOWN.
irq_type_str(bits) ==
    LET types == Tokens(<<"HARDWARE", "SOFTWARE", "TIMER", "NETWORK", "BLOCK",
                          "MIGRATE", "AFFINITY">>, bits)
    IN  IF types # <<>> THEN types ELSE <<"UNKNOWN">>

\* PageFaultEvent.fault_type_str.
fault_type_str(bits) ==
    LET types == Tokens(<<"MINOR", "MAJOR", "WRITE", "USER", "SHARED", "SWAP">>, bits)
    IN  IF types # <<>> THEN types ELSE <<"UNKNOWN">>

\* The type column of InterruptMonitor.format_for_console; TYPE_<hex> is kept
\* as the token TYPE followed by the bits it prints.
irq_console_type(bits) ==
    IF "HARDWARE" \in bits THEN <<"HARD">>
    ELSE IF "SOFTWARE" \in bits
         THEN IF "TIMER" \in bits THEN <<"TIMER">>
              ELSE IF "NETWORK" \in bits THEN <<"NETWORK">>
              ELSE IF "BLOCK" \in bits THEN <<"BLOCK">>
              ELSE <<"SOFT">>
    ELSE IF "MIGRATE" \in bits THEN <<"MIGRATE">>
    ELSE <<"TYPE", bits>>

\* The type column of PageFaultMonitor.format_for_console.
fault_console_type(bits) ==
    (IF "MAJOR" \in bits THEN <<"MAJOR">>
     ELSE IF "MINOR" \in bits THEN <<"MINOR">>
     ELSE <<"UNKNOWN">>)
    \o (IF "WRITE" \in bits THEN <<"WRITE">> ELSE <<>>)
    \o (IF "USER" \in bits THEN <<"USER">> ELSE <<>>)

\* BaseMonitor.__handle_event_callback: the event goes to
\* output_controller.handle_event unless _should_handle_event returns False.
handle_event_callback ==
    /\ ev_handled = <<>>
    /\ ev_handled' = <<IF ev_monitor = "interrupt"
                       THEN irq_should_handle_event(ev_config, ev_bits)
                       ELSE fault_should_handle_event(ev_config, ev_bits)>>
    /\ UNCHANGED <<pipelineVars, daemonVars, aggVars, signalVars, bioVars, funcVars, targetVars, lockVars, ev_monitor,
                   ev_bits, ev_config, ev_console, ev_type_str>>

\* format_for_console(event) of the event's monitor.
format_for_console ==
    /\ ev_console = <<>>
    /\ ev_console' = <<IF ev_monitor = "interrupt"
                       THEN irq_console_type(ev_bits)
                       ELSE fault_console_type(ev_bits)>>
    /\ UNCHANGED <<pipelineVars, daemonVars, aggVars, signalVars, bioVars, funcVars, targetVars, lockVars, ev_monitor,
                   ev_bits, ev_config, ev_handled, ev_type_str>>

\* format_for_csv(event) of the event's monitor: the *_type_str column.
format_for_csv ==
    /\ ev_type_str = <<>>
    /\ ev_type_str' = <<IF ev_monitor = "interrupt"
                        THEN irq_type_str(ev_bits)
                        ELSE fault_type_str(ev_bits)>>
    /\ UNCHANGED <<pipelineVars, daemonVars, aggVars, signalVars, bioVars, funcVars, targetVars, lockVars, ev_monitor,
                   ev_bits, ev_config, ev_handled, ev_console>>

\* Any event of either monitor under any validated configuration.
TypeInit ==
    /\ selected_monitors = TypeOrder
    /\ buffer_size = 1
    /\ pending_events = 0
    /\ poll_events = 1
    /\ write_faults = FALSE
    /\ PipelineState
    /\ DaemonIdle
    /\ AggIdle
    /\ SignalIdle
    /\ BioIdle
    /\ ev_monitor \in {"interrupt", "page_fault"}
    /\ ev_bits \in SUBSET (IF ev_monitor = "interrupt" THEN IrqBits ELSE FaultBits)
    /\ ev_config \in SUBSET (IF ev_monitor = "interrupt" THEN IrqSwitches ELSE FaultSwitches)
    /\ ev_handled = <<>>
    /\ ev_console = <<>>
    /\ ev_type_str = <<>>
    /\ FuncIdle
    /\ TargetIdle
    /\ LockIdle

TypeNext == handle_event_callback \/ format_for_console \/ format_for_csv

TypeSpec == TypeInit /\ [][TypeNext]_vars

\* ------------------------------------------- the symbols of the func monitor
\* A name, a pattern and a regular expression are sequences of characters.

\* Longest symbol list, and largest probe_limit configured.
MaxSymbols == 3
MaxProbeLimit == 2

\* The symbol names and types of the lists, and the patterns configured.
SymbolNames == {<<"a">>, <<"b">>, <<"a", "b">>}
SymbolTypes == {"t", "T", "D"}
Patterns == {<<"a">>, <<".">>, <<"*">>, <<"?", "b">>, <<"a", "*">>}

RECURSIVE ToRegex(_)
\* pattern.replace('*', '.*').replace('?', '.')
ToRegex(pattern) ==
    IF pattern = <<>> THEN <<>>
    ELSE (IF Head(pattern) = "*" THEN <<".", "*">>
          ELSE IF Head(pattern) = "?" THEN <<".">>
          ELSE <<Head(pattern)>>) \o ToRegex(Tail(pattern))

\* One character against one atom of a regular expression: `.` is any character.
AtomMatches(atom, ch) == atom = "." \/ atom = ch

RECURSIVE ReFullMatch(_, _)
\* re.match("^" + regex + "$", name): an atom followed by `*` repeats.
ReFullMatch(regex, name) ==
    IF regex = <<>> THEN name = <<>>
    ELSE IF Len(regex) >= 2 /\ regex[2] = "*"
         THEN \/ ReFullMatch(SubSeq(regex, 3, Len(regex)), name)
              \/ /\ name # <<>>
                 /\ AtomMatches(regex[1], Head(name))
                 /\ ReFullMatch(regex, Tail(name))
    ELSE /\ name # <<>>
         /\ AtomMatches(regex[1], Head(name))
         /\ ReFullMatch(Tail(regex), Tail(name))

\* FuncMonitor._match_pattern(symbol_name, pattern)
match_pattern(symbol_name, pattern) == ReFullMatch(ToRegex(pattern), symbol_name)

\* The line is kept: its type is 't' or 'T' and some pattern matches its name.
LineMatches(line) ==
    /\ line[1] \in {"t", "T"}
    /\ \E pattern \in patterns : match_pattern(line[2], pattern)

RECURSIVE FindFrom(_, _, _)
\* The loop of _find_matching_functions from line i on, with the dict matched
\* and the next id func_id: a kept line is stored under func_id, and the loop
\* breaks after a line that leaves probe_limit entries in the dict.
FindFrom(i, matched, func_id) ==
    IF i > Len(kallsyms) THEN matched
    ELSE LET keep == LineMatches(kallsyms[i])
             now == IF keep THEN matched \cup {<<func_id, kallsyms[i][2]>>} ELSE matched
             id == IF keep THEN func_id + 1 ELSE func_id
         IN  IF Cardinality(now) >= probe_limit THEN now
             ELSE FindFrom(i + 1, now, id)

\* FuncMonitor._find_matching_functions()
find_matching_functions == FindFrom(1, {}, 0)

\* _initialize of the func monitor.
call_find_matching_functions ==
    /\ matched_functions = <<>>
    /\ matched_functions' = <<find_matching_functions>>
    /\ UNCHANGED <<pipelineVars, daemonVars, aggVars, signalVars, bioVars, typeVars,
                   targetVars, lockVars, kallsyms, patterns, probe_limit>>

\* The lists of at most n lines.
SymbolLists(n) == UNION {[1..k -> SymbolTypes \X SymbolNames] : k \in 0..n}

\* Any symbol list, any validated configuration.
FuncInit ==
    /\ selected_monitors = TypeOrder
    /\ buffer_size = 1
    /\ pending_events = 0
    /\ poll_events = 1
    /\ write_faults = FALSE
    /\ PipelineState
    /\ DaemonIdle
    /\ AggIdle
    /\ SignalIdle
    /\ BioIdle
    /\ TypeIdle
    /\ kallsyms \in SymbolLists(MaxSymbols)
    /\ patterns \in {P \in SUBSET Patterns : Cardinality(P) \in 1..2}
    /\ probe_limit \in 1..MaxProbeLimit
    /\ matched_functions = <<>>
    /\ TargetIdle
    /\ LockIdle

FuncNext == call_find_matching_functions

FuncSpec == FuncInit /\ [][FuncNext]_vars

\* ------------------------------------------------- daemon and PID file

\* Processes started with --daemon against the same PID-file path.
MaxDaemons == 2
Daemons == 1..MaxDaemons

\* `for _ in range(10)` of stop_daemon.
StopPolls == 10

\* The process exists: it was started and has neither exited nor been killed.
Alive(p) == p \in Daemons /\ p_pc[p] \notin {"idle", "exited", "killed"}

\* get_daemon_pid(): None (0) when the path does not exist or the file holds
\* no PID (content 0: it is empty, or int() rejects its text), else the PID
\* read from the file (the shared lock it tries to take
\* decides nothing: the file is read in either case).
get_daemon_pid == IF path_inode = 0 THEN 0 ELSE inode_content[path_inode]

\* is_running(): a PID was read and os.kill(pid, 0) finds the process.
is_running == get_daemon_pid # 0 /\ Alive(get_daemon_pid)

\* is_running() that removes the PID file of a process it does not find.
is_running_cleaning ==
    /\ path_inode' = IF is_running THEN path_inode ELSE 0
    /\ UNCHANGED <<inode_content, inode_lock>>

\* What a call of is_running() does to the PID file: get_daemon_pid() opens it
\* for reading, reads it and closes it again (dropping its shared lock), and
\* os.kill(pid, 0) delivers no signal.
is_running_effect == UNCHANGED <<path_inode, inode_content, inode_lock>>

\* The locks after process p has ended: the kernel closes its files.
LocksWithout(p) == [i \in DOMAIN inode_lock |-> IF inode_lock[i] = p THEN 0 ELSE inode_lock[i]]

DaemonInit ==
    /\ selected_monitors = TypeOrder
    /\ buffer_size = 1
    /\ pending_events = 0
    /\ poll_events = 1
    /\ write_faults = FALSE
    /\ PipelineState
    /\ path_inode = 0
    /\ inode_content = <<>>
    /\ inode_lock = <<>>
    /\ p_pc = [p \in Daemons |-> "idle"]
    /\ p_handle = [p \in Daemons |-> 0]
    /\ is_daemon = [p \in Daemons |-> FALSE]
    /\ shutdown_requested = [p \in Daemons |-> FALSE]
    /\ p_exit = [p \in Daemons |-> -1]
    /\ sd_pc = "idle"
    /\ sd_pid = 0
    /\ sd_polls = 0
    /\ sd_result = FALSE
    /\ sd_alive = TRUE
    /\ ds_reply = "none"
    /\ AggIdle
    /\ SignalIdle
    /\ BioIdle
    /\ MoreIdle

\* `main.py --daemon` is started (PIDs are handed out in order).
Launch(p) ==
    /\ p_pc[p] = "idle"
    /\ \A q \in Daemons : q < p => p_pc[q] # "idle"
    /\ p_pc' = [p_pc EXCEPT ![p] = "daemonize"]
    /\ UNCHANGED <<pipelineVars, sideVars, fileVars, p_handle, is_daemon, shutdown_requested,
                   p_exit, stopVars, statusVars>>

\* daemonize(), first step: with a daemon running it returns False and main
\* exits 1.
daemonize_check(p) ==
    /\ p_pc[p] = "daemonize"
    /\ IF is_running
       THEN /\ p_pc' = [p_pc EXCEPT ![p] = "exited"]
            /\ p_exit' = [p_exit EXCEPT ![p] = 1]
       ELSE /\ p_pc' = [p_pc EXCEPT ![p] = "stale_check"]
            /\ UNCHANGED p_exit
    /\ is_running_effect
    /\ UNCHANGED <<pipelineVars, sideVars, p_handle, is_daemon, shutdown_requested,
                   stopVars, statusVars>>

\* cleanup_stale_pid_file(): `not self.is_running() and self.pid_file.exists()`.
cleanup_stale_pid_file(p) ==
    /\ p_pc[p] = "stale_check"
    /\ p_pc' = [p_pc EXCEPT ![p] =
                    IF ~is_running /\ path_inode # 0 THEN "unlink" ELSE "open"]
    /\ is_running_effect
    /\ UNCHANGED <<pipelineVars, sideVars, p_handle, is_daemon, shutdown_requested,
                   p_exit, stopVars, statusVars>>

\* _remove_pid_file() called by cleanup_stale_pid_file (no handle is held):
\* `if self.pid_file.exists(): self.pid_file.unlink()`.  The two forks follow.
remove_pid_file(p) ==
    /\ p_pc[p] = "unlink"
    /\ path_inode' = 0
    /\ p_pc' = [p_pc EXCEPT ![p] = "open"]
    /\ UNCHANGED <<pipelineVars, sideVars, inode_content, inode_lock, p_handle, is_daemon,
                   shutdown_requested, p_exit, stopVars, statusVars>>

\* _write_pid_file(), open(pid_file, 'w'): creates the file when the path does
\* not exist, and truncates the existing file otherwise.
write_pid_file_open(p) ==
    /\ p_pc[p] = "open"
    /\ IF path_inode = 0
       THEN /\ path_inode' = Len(inode_content) + 1
            /\ inode_content' = Append(inode_content, 0)
            /\ inode_lock' = Append(inode_lock, 0)
            /\ p_handle' = [p_handle EXCEPT ![p] = Len(inode_content) + 1]
       ELSE /\ inode_content' = [inode_content EXCEPT ![path_inode] = 0]
            /\ p_handle' = [p_handle EXCEPT ![p] = path_inode]
            /\ UNCHANGED <<path_inode, inode_lock>>
    /\ p_pc' = [p_pc EXCEPT ![p] = "flock"]
    /\ UNCHANGED <<pipelineVars, sideVars, is_daemon, shutdown_requested, p_exit, stopVars, statusVars>>

\* _write_pid_file(), flock(LOCK_EX | LOCK_NB): when another process holds the
\* lock of the opened file the handle is closed, _write_pid_file and daemonize
\* return False and main exits 1.
write_pid_file_flock(p) ==
    /\ p_pc[p] = "flock"
    /\ IF inode_lock[p_handle[p]] = 0
       THEN /\ inode_lock' = [inode_lock EXCEPT ![p_handle[p]] = p]
            /\ p_pc' = [p_pc EXCEPT ![p] = "write"]
            /\ UNCHANGED <<p_handle, p_exit>>
       ELSE /\ p_handle' = [p_handle EXCEPT ![p] = 0]
            /\ p_pc' = [p_pc EXCEPT ![p] = "exited"]
            /\ p_exit' = [p_exit EXCEPT ![p] = 1]
            /\ UNCHANGED inode_lock
    /\ UNCHANGED <<pipelineVars, sideVars, path_inode, inode_content, is_daemon,
                   shutdown_requested, stopVars, statusVars>>

\* _write_pid_file(), write(str(os.getpid()) + '\n'), flush and fsync.
write_pid_file_write(p) ==
    /\ p_pc[p] = "write"
    /\ inode_content' = [inode_content EXCEPT ![p_handle[p]] = p]
    /\ p_pc' = [p_pc EXCEPT ![p] = "handlers"]
    /\ UNCHANGED <<pipelineVars, sideVars, path_inode, inode_lock, p_handle, is_daemon,
                   shutdown_requested, p_exit, stopVars, statusVars>>

\* daemonize(), last step: _setup_signal_handlers() and is_daemon = True.
setup_signal_handlers(p) ==
    /\ p_pc[p] = "handlers"
    /\ is_daemon' = [is_daemon EXCEPT ![p] = TRUE]
    /\ p_pc' = [p_pc EXCEPT ![p] = "starting"]
    /\ UNCHANGED <<pipelineVars, sideVars, fileVars, p_handle, shutdown_requested, p_exit,
                   stopVars, statusVars>>

\* main.py after daemonize(): load() and start() succeed and the supervision
\* loop is entered, or one of them fails and main exits 1 (its finally block
\* runs ebpf_monitor.cleanup(); nothing removes the PID file, and the kernel
\* closes the handle).
daemon_start(p) ==
    /\ p_pc[p] = "starting"
    /\ \E ok \in BOOLEAN :
        IF ok
        THEN /\ p_pc' = [p_pc EXCEPT ![p] = "main_loop"]
             /\ UNCHANGED <<inode_lock, p_handle, p_exit>>
        ELSE /\ p_pc' = [p_pc EXCEPT ![p] = "exited"]
             /\ p_exit' = [p_exit EXCEPT ![p] = 1]
             /\ p_handle' = [p_handle EXCEPT ![p] = 0]
             /\ inode_lock' = LocksWithout(p)
    /\ UNCHANGED <<pipelineVars, sideVars, path_inode, inode_content, is_daemon,
                   shutdown_requested, stopVars, statusVars>>

\* `while ebpf_monitor.is_running():` in a daemon: running is True, since only
\* ebpf_monitor.stop() clears it and stop() is called after the loop.
main_loop_test(p) ==
    /\ p_pc[p] = "main_loop"
    /\ p_pc' = [p_pc EXCEPT ![p] = "sleep"]
    /\ UNCHANGED <<pipelineVars, sideVars, fileVars, p_handle, is_daemon, shutdown_requested,
                   p_exit, stopVars, statusVars>>

\* `time.sleep(1)` of the supervision loop returns.
main_loop_sleep(p) ==
    /\ p_pc[p] = "sleep"
    /\ p_pc' = [p_pc EXCEPT ![p] = "main_loop"]
    /\ UNCHANGED <<pipelineVars, sideVars, fileVars, p_handle, is_daemon, shutdown_requested,
                   p_exit, stopVars, statusVars>>

\* SIGTERM or SIGINT reaches a daemon whose handlers are installed:
\* _signal_handler sets shutdown_requested and returns.
signal_handler(p) ==
    /\ Alive(p) /\ is_daemon[p]
    /\ ~shutdown_requested[p]
    /\ shutdown_requested' = [shutdown_requested EXCEPT ![p] = TRUE]
    /\ UNCHANGED <<pipelineVars, sideVars, fileVars, p_pc, p_handle, is_daemon, p_exit, stopVars, statusVars>>

\* `main.py --daemon-stop` is started.
StopLaunch ==
    /\ sd_pc = "idle"
    /\ sd_pc' = "get_pid"
    /\ UNCHANGED <<pipelineVars, sideVars, fileVars, procVars, sd_pid, sd_polls, sd_result, sd_alive, statusVars>>

\* stop_daemon(): pid = get_daemon_pid(); with no PID it returns True.
stop_daemon_get_pid ==
    /\ sd_pc = "get_pid"
    /\ sd_pid' = get_daemon_pid
    /\ IF get_daemon_pid = 0
       THEN sd_pc' = "done" /\ sd_result' = TRUE
       ELSE sd_pc' = "term" /\ UNCHANGED sd_result
    /\ UNCHANGED <<pipelineVars, sideVars, fileVars, procVars, sd_polls, sd_alive, statusVars>>

\* os.kill(pid, signal.SIGTERM): OSError when the process is gone (stop_daemon
\* returns False); a daemon's handler sets shutdown_requested; a process that
\* has not installed its handlers yet is terminated by the signal.
stop_daemon_sigterm ==
    /\ sd_pc = "term"
    /\ IF ~Alive(sd_pid)
       THEN /\ sd_pc' = "done" /\ sd_result' = FALSE
            /\ UNCHANGED <<inode_lock, procVars>>
       ELSE /\ sd_pc' = "poll" /\ UNCHANGED sd_result
            /\ IF is_daemon[sd_pid]
               THEN /\ shutdown_requested' = [shutdown_requested EXCEPT ![sd_pid] = TRUE]
                    /\ UNCHANGED <<inode_lock, p_pc, p_handle>>
               ELSE /\ p_pc' = [p_pc EXCEPT ![sd_pid] = "killed"]
                    /\ p_handle' = [p_handle EXCEPT ![sd_pid] = 0]
                    /\ inode_lock' = LocksWithout(sd_pid)
                    /\ UNCHANGED shutdown_requested
            /\ UNCHANGED <<is_daemon, p_exit>>
    /\ UNCHANGED <<pipelineVars, sideVars, path_inode, inode_content, sd_pid, sd_polls, sd_alive, statusVars>>

\* One round of `for _ in range(10)`: return True when is_running() is False,
\* else time.sleep(1).
stop_daemon_poll ==
    /\ sd_pc = "poll" /\ sd_polls < StopPolls
    /\ IF ~is_running
       THEN sd_pc' = "done" /\ sd_result' = TRUE /\ UNCHANGED sd_polls
       ELSE sd_polls' = sd_polls + 1 /\ UNCHANGED <<sd_pc, sd_result>>
    /\ sd_alive' = (sd_alive /\ Alive(sd_pid))
    /\ is_running_effect
    /\ UNCHANGED <<pipelineVars, sideVars, procVars, sd_pid, statusVars>>

\* After the ten rounds: os.kill(pid, signal.SIGKILL), and stop_daemon returns
\* True; OSError when the process is gone, and it returns False.
stop_daemon_sigkill ==
    /\ sd_pc = "poll" /\ sd_polls = StopPolls
    /\ sd_pc' = "done"
    /\ IF Alive(sd_pid)
       THEN /\ sd_result' = TRUE
            /\ p_pc' = [p_pc EXCEPT ![sd_pid] = "killed"]
            /\ p_handle' = [p_handle EXCEPT ![sd_pid] = 0]
            /\ inode_lock' = LocksWithout(sd_pid)
       ELSE /\ sd_result' = FALSE
            /\ UNCHANGED <<inode_lock, p_pc, p_handle>>
    /\ UNCHANGED <<pipelineVars, sideVars, path_inode, inode_content, is_daemon,
                   shutdown_requested, p_exit, sd_pid, sd_polls, sd_alive, statusVars>>

\* `main.py --daemon-status`: is_running() and the line printed, the PID read
\* by a second get_daemon_pid() when a daemon is running.
daemon_status ==
    /\ ds_reply' = IF is_running THEN "running" ELSE "not_running"
    /\ is_running_effect
    /\ UNCHANGED <<pipelineVars, sideVars, procVars, stopVars>>

\* The steps of the process with daemon PID p.
DaemonProcess(p) ==
    \/ daemonize_check(p) \/ cleanup_stale_pid_file(p) \/ remove_pid_file(p)
    \/ write_pid_file_open(p) \/ write_pid_file_flock(p) \/ write_pid_file_write(p)
    \/ setup_signal_handlers(p) \/ daemon_start(p)
    \/ main_loop_test(p) \/ main_loop_sleep(p)

StopProcess ==
    \/ stop_daemon_get_pid \/ stop_daemon_sigterm \/ stop_daemon_poll
    \/ stop_daemon_sigkill

DaemonNext ==
    \/ \E p \in Daemons : Launch(p)
    \/ \E p \in Daemons : DaemonProcess(p)
    \/ \E p \in Daemons : signal_handler(p)
    \/ StopLaunch
    \/ StopProcess
    \/ daemon_status

DaemonSpec == DaemonInit /\ [][DaemonNext]_vars

\* The scheduler runs every process that can take a step.
DaemonFairness ==
    /\ \A p \in Daemons : WF_vars(DaemonProcess(p))
    /\ WF_vars(StopProcess)

DaemonFairSpec == DaemonSpec /\ DaemonFairness

\* ------------------------------------------------- signals in a daemon
\* The pipeline of a process that has become a daemon: daemonize() returned
\* True (PID file written and locked, dispositions installed) before the
\* manager was built, and signals arrive at any point of any thread.

Signals == {"SIGTERM", "SIGINT", "SIGHUP", "SIGPIPE"}

\* Dispositions that route every signal to _signal_handler.
DispositionAll(sig) == "handler"

\* _setup_signal_handlers: SIGTERM and SIGINT go to _signal_handler, SIGHUP and
\* SIGPIPE are set to SIG_IGN.
Disposition(sig) == IF sig \in {"SIGTERM", "SIGINT"} THEN "handler" ELSE "ignore"

\* A signal is delivered to daemon p: _signal_handler sets shutdown_requested
\* and returns; an ignored signal is discarded by the kernel.
deliver_signal(p, sig) ==
    /\ Alive(p) /\ is_daemon[p] /\ m_pc # "exited"
    /\ last_signal' = sig
    /\ shutdown_requested' = IF Disposition(sig) = "handler"
                             THEN [shutdown_requested EXCEPT ![p] = TRUE]
                             ELSE shutdown_requested
    /\ UNCHANGED <<pipelineVars, aggVars, bioVars, moreVars, fileVars, p_pc, p_handle, is_daemon,
                   p_exit, stopVars, statusVars>>

\* Daemon 1 after daemonize(): the state setup_signal_handlers(1) leaves, with
\* the manager constructed; the kernel has two events for the monitors.
SignalInit ==
    /\ selected_monitors = TypeOrder
    /\ buffer_size = 1
    /\ pending_events = 2
    /\ poll_events = 1
    /\ write_faults = FALSE
    /\ PipelineState
    /\ path_inode = 1
    /\ inode_content = <<1>>
    /\ inode_lock = <<1>>
    /\ p_pc = [p \in Daemons |-> IF p = 1 THEN "starting" ELSE "idle"]
    /\ p_handle = [p \in Daemons |-> IF p = 1 THEN 1 ELSE 0]
    /\ is_daemon = [p \in Daemons |-> p = 1]
    /\ shutdown_requested = [p \in Daemons |-> FALSE]
    /\ p_exit = [p \in Daemons |-> -1]
    /\ sd_pc = "idle"
    /\ sd_pid = 0
    /\ sd_polls = 0
    /\ sd_result = FALSE
    /\ sd_alive = TRUE
    /\ ds_reply = "none"
    /\ AggIdle
    /\ SignalIdle
    /\ BioIdle
    /\ MoreIdle

SignalNext ==
    \/ Next
    \/ \E sig \in Signals : deliver_signal(1, sig)

SignalSpec == SignalInit /\ [][SignalNext]_vars

\* --------------------------------------------------- properties: pipeline

RECURSIVE IsSubsequence(_, _)
\* a is b with zero or more elements left out, the order kept.
IsSubsequence(a, b) ==
    IF a = <<>> THEN TRUE
    ELSE IF b = <<>> THEN FALSE
    ELSE IF Head(a) = Head(b) THEN IsSubsequence(Tail(a), Tail(b))
    ELSE IsSubsequence(a, Tail(b))

Elems(q) == {q[i] : i \in 1..Len(q)}

NoRepeats(q) == \A i, j \in 1..Len(q) : q[i] = q[j] => i = j

\* OutputController.stop() has set the stop event and has not returned yet.
InOcStop == m_pc \in {"oc_join", "oc_drain", "oc_close"}

\* C1: in the manager's shutdown sequence stop() of every running monitor has
\* completed before OutputController.stop() begins, OutputController.stop() has
\* completed before any monitor's cleanup() begins, and
\* OutputController.cleanup() has run, after the monitors' cleanup(), before
\* the process exits.
C1_ShutdownOrder ==
    /\ InOcStop => \A t \in MonitorTypes : ~mon_running[t]
    /\ (exit_code # 1 /\ \E t \in MonitorTypes : mon_cleanups[t] > 0) => ~oc_running
    /\ (m_pc = "exited" /\ exit_code = 0) => oc_cleanups > 0

\* C2: when OutputController.stop() returns, every FIFO is empty and every
\* record that was queued when stop() was called has been written to the CSV
\* file of its type, whatever the number of queued records up to buffer_size
\* (stated for a stop() during which no producer pushes).
C2_StopDrainsAll ==
    (m_pc = "stop_monitors" /\ oc_stop_event /\ pushed = at_stop.pushed)
        => \A t \in MonitorTypes :
            /\ events_buffer[t] = <<>>
            /\ Elems(at_stop.queued[t]) \subseteq Elems(csv_rows[t])

\* C6: a FIFO never holds more than buffer_size records, and handle_event on
\* a full FIFO removes exactly the oldest record and appends the new one, the
\* order of the other records unchanged.
C6_BoundedHeadDrop ==
    /\ [](\A t \in MonitorTypes : Len(events_buffer[t]) <= buffer_size)
    /\ [][\A t \in MonitorTypes :
            (d_pc[t] = "he_lock" /\ d_pc'[t] = "poll"
                /\ Len(events_buffer[t]) = buffer_size)
            => /\ events_buffer'[t] = Append(Tail(events_buffer[t]), d_events[t][1])
               /\ head_dropped'[t] = Append(head_dropped[t], Head(events_buffer[t]))]_vars

\* A full FIFO has discarded a record from its head.
C6_Witness ==
    \E t \in MonitorTypes :
        /\ head_dropped[t] # <<>>
        /\ Len(events_buffer[t]) = buffer_size
        /\ events_buffer[t][Len(events_buffer[t])] = next_id[t]

\* C7: the overflow counter of a monitor counts exactly the records that were
\* head-dropped from its full FIFO (n pushes into capacity k without
\* consumption: n - k).
C7_OverflowCounted ==
    \A t \in MonitorTypes : events_dropped[t] = Len(head_dropped[t])

\* C8: the rows written to the CSV file of a type are a subsequence of the
\* records pushed for that type, and once the run is over the only pushed
\* records missing from the file are those head-dropped on overflow.
C8_WrittenSubsequence ==
    \A t \in MonitorTypes :
        /\ IsSubsequence(csv_rows[t], pushed[t])
        /\ (m_pc = "exited" /\ exit_code = 0)
            => Elems(pushed[t]) \ Elems(csv_rows[t]) \subseteq Elems(head_dropped[t])

\* The order half of C8 alone: written rows keep their push order.
WrittenKeepPushOrder ==
    \A t \in MonitorTypes : IsSubsequence(csv_rows[t], pushed[t])

\* C9: after shutdown every pushed record was written exactly once or dropped
\* and counted: pushed = written + counted drops, and no row is written twice.
C9_RecordsConserved ==
    \A t \in MonitorTypes :
        /\ NoRepeats(csv_rows[t])
        /\ (m_pc = "exited" /\ exit_code = 0)
            => Len(pushed[t]) = Len(csv_rows[t]) + events_dropped[t]

\* C10: a drain thread inside handle_event never waits for the consumer
\* thread: it is never at the buffer lock of its type while the consumer holds
\* that lock for a batch it has popped and is writing.
C10_ProducersNeverBlock ==
    \A t \in MonitorTypes :
        ~(d_pc[t] = "he_lock" /\ lock_holder[t] = "consumer" /\ c_pc = "write")

\* ----------------------------------------------------- properties: daemon

\* daemonize() has returned True in p and p has not ended.
RunningDaemon(p) == Alive(p) /\ is_daemon[p]

\* C3: in daemon mode, once SIGTERM or SIGINT has set shutdown_requested, the
\* main loop eventually performs the shutdown and the process exits with
\* code 0, without being killed.
C3_SignalLeadsToExit ==
    \A p \in Daemons :
        (p_pc[p] \in {"main_loop", "sleep"} /\ shutdown_requested[p]) ~> (p_exit[p] = 0)

\* C4: whatever the interleaving of daemonize() attempts on one PID-file path,
\* at most one process at a time is a running daemon.
C4_SingleDaemon ==
    \A p, q \in Daemons : (RunningDaemon(p) /\ RunningDaemon(q)) => p = q

\* C5: while a daemon is running the PID file exists, holds that daemon's PID
\* and is exclusively locked by that daemon, whatever daemonize() and stop
\* attempts other processes make meanwhile.
C5_PidFileOfRunningDaemon ==
    \A p \in Daemons :
        RunningDaemon(p)
            => /\ path_inode # 0
               /\ inode_content[path_inode] = p
               /\ inode_lock[path_inode] = p

\* ------------------------------------------- properties: monitor life cycle

\* C11: for every monitor, in every reachable state of the manager and of the
\* monitor (load, start, stop, cleanup, failed loads and runs), running implies
\* loaded: in the manager's status record and in the monitor itself.
C11_RunningImpliesLoaded ==
    \A t \in MonitorTypes :
        /\ status_running[t] => status_loaded[t]
        /\ mon_running[t] => (bpf[t] /\ status_loaded[t])

\* One monitor runs while the other, whose load failed after self.bpf was
\* assigned, was not started.
C11_Witness ==
    \E t, u \in MonitorTypes :
        /\ mon_running[t] /\ status_running[t] /\ status_loaded[t]
        /\ bpf[u] /\ ~status_loaded[u] /\ ~mon_running[u]
        /\ m_pc = "main_loop"

\* ------------------------------------------------ properties of the calls

\* The step is the client's call of method on monitor type t.
Calls(method, t) ==
    /\ api_calls' = api_calls + 1
    /\ api_log'[Len(api_log')] = <<method, t>>

\* C12: loading is idempotent: a load of a monitor that is already loaded
\* compiles and attaches nothing again, does not register the monitor with the
\* controller again and opens no further CSV file.
C12_LoadIdempotent ==
    [][\A t \in MonitorTypes :
        (Calls("load", t) /\ bpf[t] /\ status_loaded[t])
            => /\ bpf_compiles'[t] = bpf_compiles[t]
               /\ csv_opened'[t] = csv_opened[t]]_vars

\* The drain threads of monitor t that are alive: the one monitor_thread names
\* and those an earlier run() started and a later run() replaced.
AliveDrainThreads(t) == (IF ThreadAlive(t) THEN 1 ELSE 0) + d_orphans[t]

\* C13: run() is idempotent: in every reachable state, a stop() followed by a
\* run() included, at most one drain thread per monitor is alive.
C13_OneDrainThread ==
    \A t \in MonitorTypes : AliveDrainThreads(t) <= 1

\* C14: stop() is idempotent: a stop() of a monitor that is not running (never
\* run, or already stopped) changes no state of the monitor, the controller or
\* the manager.
C14_StopIdempotent ==
    [][\A t \in MonitorTypes :
        (Calls("stop", t) /\ ~mon_running[t])
            => UNCHANGED <<ocVars, consumerVars, monitorVars, mainVars, historyVars,
                           auditVars>>]_vars

\* stop() was called twice in a row on a monitor that had been run.
C14_Witness ==
    \E t \in MonitorTypes :
        /\ api_log = <<<<"stop", t>>, <<"stop", t>>>>
        /\ bpf[t] /\ d_pc[t] # "none" /\ ~mon_running[t]

\* C15: cleanup() is guarded: a second cleanup() performs no detach and no map
\* release, so the kernel resources of a monitor are released at most once.
C15_ReleasedAtMostOnce ==
    \A t \in MonitorTypes : mon_cleanups[t] <= 1

\* C16: after any sequence of register and unregister calls the output mode is
\* FileAndConsole when exactly one monitor is registered and FileOnly when two
\* or more are registered.
C16_ModeFollowsCount ==
    /\ Cardinality(oc_monitors) = 1 => output_mode = FILE_AND_CONSOLE
    /\ Cardinality(oc_monitors) >= 2 => output_mode = FILE_ONLY

\* A second monitor was registered and unregistered again: the count went
\* 1, 2, 1 and the mode is back to FileAndConsole.
C16_Witness ==
    \E t \in MonitorTypes :
        /\ api_calls >= 3
        /\ api_log = <<<<"register", t>>, <<"unregister", t>>>>
        /\ Cardinality(oc_monitors) = 1
        /\ output_mode = FILE_AND_CONSOLE

\* C17: in any sequence of controller operations every CSV file opened for a
\* monitor type is closed exactly once: at every moment the files opened for t
\* are the closed ones plus the one handle the controller holds, if it holds
\* one; no handle is left open unreferenced and none is closed twice.
C17_OpenedFilesClosedOnce ==
    \A t \in MonitorTypes :
        csv_opened[t] = csv_closed[t] + (IF t \in csv_files THEN 1 ELSE 0)

\* ------------------------------------------- properties of the PID file

\* The step calls is_running(): the status command, the first test of
\* daemonize(), cleanup_stale_pid_file() or a poll of stop_daemon().
CallsIsRunning ==
    \/ daemon_status
    \/ stop_daemon_poll
    \/ \E p \in Daemons : daemonize_check(p) \/ cleanup_stale_pid_file(p)

C19_NoRemovalUnderLock ==
    [][(path_inode # 0 /\ path_inode' = 0)
        => ~Alive(inode_lock[path_inode])]_vars

\* C20: stop_daemon() sends SIGKILL only after SIGTERM and only when the
\* process it signalled was still alive at every poll of the ten; with no PID
\* to read it sends no signal and reports success.
C20_StopEscalation ==
    [][/\ stop_daemon_sigkill => (sd_polls = StopPolls /\ sd_alive)
       /\ (stop_daemon_get_pid /\ get_daemon_pid = 0)
            => (sd_pc' = "done" /\ sd_result' /\ UNCHANGED procVars)]_vars

\* -------------------------------------------- properties of load and start

\* C21: eBPFMonitor.load() attempts every built monitor whatever the earlier
\* loads did and succeeds iff at least one monitor loaded (main.py exits 1
\* otherwise); a load that fails leaves the monitor not loaded, with an error
\* recorded and not registered with the controller, and changes nothing of
\* the other monitors.
C21_LoadContinues ==
    [][/\ (m_pc = "load" /\ m_pc' # "load")
            => /\ \A t \in MonitorTypes : bpf_compiles[t] >= 1
               /\ (m_pc' = "oc_start") <=> (\E t \in MonitorTypes : status_loaded[t])
               /\ (m_pc' = "cleanup" /\ exit_code' = 1)
                    <=> (\A t \in MonitorTypes : ~status_loaded[t])
       /\ (m_pc = "load" /\ m_todo # <<>> /\ m_todo' = Tail(m_todo))
            => LET t == Head(m_todo) IN
               /\ ~status_loaded'[t]
                    => (status_error'[t] /\ t \notin oc_monitors' /\ t \notin csv_files')
               /\ \A u \in MonitorTypes \ {t} :
                    /\ bpf'[u] = bpf[u]
                    /\ status_loaded'[u] = status_loaded[u]
                    /\ status_error'[u] = status_error[u]
                    /\ (u \in oc_monitors') = (u \in oc_monitors)
                    /\ (u \in csv_files') = (u \in csv_files)]_vars

\* The first monitor failed to load, the second one loaded, and load() has
\* returned success.
C21_Witness ==
    /\ m_pc = "oc_start"
    /\ ~status_loaded[TypeOrder[1]] /\ status_error[TypeOrder[1]]
    /\ TypeOrder[1] \notin oc_monitors
    /\ status_loaded[TypeOrder[2]] /\ TypeOrder[2] \in oc_monitors

\* ------------------------------------------ properties of the aggregate drain

\* Within one cycle a key is consumed at most once and yields at most one
\* record, only keys of the snapshot are consumed, a key is passed over only
\* when it was deleted since the snapshot, and when the cycle ends every key of
\* the snapshot that stayed present has been consumed.
ConsumedOncePerCycle ==
    \A k \in Keys :
        /\ agg_records[k] <= agg_consumed[k] /\ agg_consumed[k] <= 1
        /\ agg_consumed[k] = 1 => k \in agg_snapshot \ agg_todo
        /\ (k \in agg_snapshot \ agg_todo /\ agg_consumed[k] = 0) => k \in agg_gone
        /\ (agg_pc = "drain" /\ agg_todo = {} /\ k \in agg_snapshot \ agg_gone)
                => agg_consumed[k] = 1

\* A visit of a key that is no longer in the map consumes nothing and emits
\* nothing.
DeletedKeySkipped ==
    \A k \in Keys :
        (k \in agg_todo /\ k \notin agg_todo' /\ k \notin stats_map)
            => (agg_consumed'[k] = agg_consumed[k] /\ agg_records'[k] = agg_records[k])

C23_StartOrder ==
    [][/\ (m_pc = "run" /\ m_todo # <<>> /\ m_todo' # m_todo)
            => LET t == Head(m_todo) IN
               /\ oc_running /\ c_pc # "none"
               /\ ~status_loaded[t]
                    => /\ mon_running'[t] = mon_running[t] /\ d_pc'[t] = d_pc[t]
                       /\ status_running'[t] = status_running[t]
                       /\ status_error'[t] = status_error[t]
               /\ (status_loaded[t] /\ ~status_running'[t]) => status_error'[t]
               /\ \A u \in MonitorTypes \ {t} :
                    /\ mon_running'[u] = mon_running[u] /\ d_pc'[u] = d_pc[u]
                    /\ status_running'[u] = status_running[u]
                    /\ status_error'[u] = status_error[u]
       /\ (m_pc = "run" /\ m_pc' # "run")
            => \A t \in MonitorTypes :
                    status_loaded[t] => (status_running[t] \/ status_error[t])
       /\ (m_pc # "run" /\ m_pc' = "run")
            => (oc_running' /\ \A t \in MonitorTypes : ~mon_running[t])]_vars

\* run() of the first monitor failed and its error is recorded, and the second
\* monitor was started after it.
C23_Witness ==
    /\ m_pc = "main_loop"
    /\ status_loaded[TypeOrder[1]] /\ ~status_running[TypeOrder[1]]
    /\ status_error[TypeOrder[1]]
    /\ status_running[TypeOrder[2]] /\ mon_running[TypeOrder[2]]

\* C24: a monitor that is not loaded (never loaded, or whose load failed at
\* any step, a failure after the program compiled included) cannot be run:
\* run() on it starts no thread and leaves it not running.
C24_UnloadedCannotRun ==
    [][\A t \in MonitorTypes :
        (Calls("run", t) /\ ~status_loaded[t])
            => (mon_running'[t] = mon_running[t] /\ d_pc'[t] = d_pc[t])]_vars

\* ------------------------------------------------------------ C25 properties

\* C25: while a type stays registered (from the register call that made it
\* registered to its unregister call) its console header is printed at most
\* once, and every console row of the type has a header line before it.
C25_HeaderOnce ==
    /\ \A t \in MonitorTypes : hdr_count[t] <= 1
    /\ \A t \in MonitorTypes :
          console[t] # <<>> => console[t][1] = "header"

\* ------------------------------------------------------------ C26 properties

C27_HandlerOnlySetsFlag ==
    [][/\ (last_signal' # last_signal \/ shutdown_requested' # shutdown_requested)
            => UNCHANGED <<pipelineVars, aggVars, fileVars, p_pc, p_handle, is_daemon,
                           p_exit, stopVars, statusVars>>
       /\ \A p \in Daemons : shutdown_requested[p] => shutdown_requested'[p]
       /\ (last_signal' # last_signal /\ last_signal' \in {"SIGHUP", "SIGPIPE"})
            => UNCHANGED shutdown_requested]_vars

\* SIGTERM set the flag while both drain threads and the consumer were at
\* work, a record waiting in a FIFO, and SIGHUP arrived after it.
C27_Witness ==
    /\ shutdown_requested[1] /\ last_signal = "SIGHUP"
    /\ m_pc = "main_loop"
    /\ \A t \in MonitorTypes : mon_running[t]
    /\ \E t \in MonitorTypes : events_buffer[t] # <<>>
    /\ c_pc = "write"
    /\ path_inode = 1 /\ inode_lock[1] = 1 /\ inode_content[1] = 1

\* ------------------------------------------------------------ C28 properties

\* C28: a record whose CSV row is lost to a formatter or writer error is
\* counted as dropped (the only drop counter the program keeps is
\* stats["events_dropped"] of the record's monitor), and no such error ends
\* the consumer thread: it ends only once the stop event is set.
C28_RowErrorsCounted ==
    /\ \A t \in MonitorTypes : Len(csv_failed[t]) <= events_dropped[t]
    /\ c_pc = "done" => oc_stop_event

\* ------------------------------------------------------------ C29 properties

\* The consumer thread was started and has not left its loop.
ConsumerAlive == c_pc \notin {"none", "done"}

\* C29: while the consumer thread is alive, a step that opens a CSV file,
\* writes rows to one or closes one is the consumer's own write of a batch:
\* never a step of the main thread (register, unregister, stop) or of a drain
\* thread.
C29_OnlyConsumerTouchesCsv ==
    [][(ConsumerAlive /\ (csv_rows' # csv_rows \/ csv_closed' # csv_closed
                            \/ csv_opened' # csv_opened \/ csv_files' # csv_files))
          => (c_pc = "write" /\ c_pc' = "for")]_vars

\* ------------------------------------------------------------ C30 properties

\* C30: the filter of bio keeps an aggregate row exactly when its mean latency
\* total_ns / count (0 for a row with count 0) is at least min_latency_us * 1000
\* nanoseconds; with min_latency_us = 0 every row is kept, rows with count 0
\* included.
C30_LatencyFilter ==
    bio_collect # <<>> =>
        /\ bio_collect[1] =
              (IF bio_count = 0
               THEN 0 >= min_latency_us * 1000
               ELSE bio_total_ns >= min_latency_us * 1000 * bio_count)
        /\ min_latency_us = 0 => bio_collect[1]

\* A row whose mean latency equals the threshold was kept.
C30_Witness ==
    /\ bio_collect = <<TRUE>>
    /\ min_latency_us > 0 /\ bio_count > 1
    /\ bio_total_ns = min_latency_us * 1000 * bio_count

\* ------------------------------------------------------------ C31 properties

\* C31: the interrupt and page_fault monitors filter nothing: whatever the
\* bits of the event's type and whatever the monitor's configuration, the
\* callback hands the event to the output controller.
C31_NoFiltering ==
    ev_handled # <<>> => ev_handled[1]

\* ------------------------------------------------------------ C32 properties

\* The first token of order whose bit is set, or other when none is.
FirstSet(order, bits, other) ==
    IF Tokens(order, bits) = <<>> THEN other ELSE Head(Tokens(order, bits))

\* The priority class of an interrupt bit mask: HARD > TIMER > NETWORK > BLOCK > SOFT.
IrqClass(bits) ==
    FirstSet(<<"HARDWARE", "TIMER", "NETWORK", "BLOCK", "SOFTWARE">>, bits, "none")

\* The class a type column of the interrupt monitor names.
IrqClassOfText(text) ==
    IF text = <<"HARD">> THEN "HARDWARE"
    ELSE IF text = <<"SOFT">> THEN "SOFTWARE"
    ELSE IF Len(text) = 1 /\ text[1] \in {"TIMER", "NETWORK", "BLOCK"} THEN text[1]
    ELSE "none"

\* The decoding of a page-fault bit mask: MAJOR or MINOR, then READ or WRITE,
\* then USER or KERNEL.
FaultText(bits) ==
    <<FirstSet(<<"MAJOR", "MINOR">>, bits, "MINOR"),
      IF "WRITE" \in bits THEN "WRITE" ELSE "READ",
      IF "USER" \in bits THEN "USER" ELSE "KERNEL">>

\* C32: the textual type of an event is the priority-ordered decoding of its
\* bit mask (interrupt: HARD > TIMER > NETWORK > BLOCK > SOFT; page fault:
\* MAJOR or MINOR, then READ or WRITE, then USER or KERNEL), and classifying
\* the text gives back the class of the bit mask.
C32_PriorityDecoding ==
    ev_console # <<>> =>
        IF ev_monitor = "interrupt"
        THEN IrqClassOfText(ev_console[1]) = IrqClass(ev_bits)
        ELSE ev_console[1] = FaultText(ev_bits)

\* ------------------------------------------------------------ C33 properties

RECURSIVE GlobMatch(_, _)
\* pattern matches the whole of name as a shell glob: `*` stands for any
\* characters, `?` for one character, every other character for itself.
GlobMatch(pattern, name) ==
    IF pattern = <<>> THEN name = <<>>
    ELSE IF Head(pattern) = "*"
         THEN \/ GlobMatch(Tail(pattern), name)
              \/ name # <<>> /\ GlobMatch(pattern, Tail(name))
    ELSE /\ name # <<>>
         /\ Head(pattern) = "?" \/ Head(pattern) = Head(name)
         /\ GlobMatch(Tail(pattern), Tail(name))

\* The names of the function symbols that match some pattern as a glob, in
\* file order.
GlobSelection ==
    LET kept == SelectSeq(kallsyms, LAMBDA line :
                    /\ line[1] \in {"t", "T"}
                    /\ \E pattern \in patterns : GlobMatch(pattern, line[2]))
    IN  [i \in 1..Len(kept) |-> kept[i][2]]

\* C33: the func monitor selects at most probe_limit symbols; they are the
\* first symbols of type 't' or 'T', in file order, that match some pattern
\* as a shell glob anchored at both ends; their ids are 0..n-1 without gaps
\* or repeats.
C33_FirstGlobMatches ==
    matched_functions # <<>> =>
        LET matched == matched_functions[1]
            n == Cardinality(matched)
        IN  /\ n <= probe_limit
            /\ n = Min(probe_limit, Len(GlobSelection))
            /\ \A i \in 0..(n - 1) : <<i, GlobSelection[i + 1]>> \in matched

\* ------------------------------------------------------------ C34 properties

\* C34: _add_target_process(pid) is all-or-nothing: after it returns, pid is
\* in target_processes exactly when it is in the target set of every loaded
\* monitor, and a call that returns False leaves target_processes and every
\* monitor's target set as they were before the call, also when pid was
\* already a target.
C34_AddAllOrNothing ==
    [][\A pid \in Pids :
        Calls("add_target", pid)
            => /\ (pid \in target_processes')
                    <=> (\A t \in LoadedMonitors : pid \in target_pids'[t])
               /\ add_result' = <<FALSE>>
                    => UNCHANGED <<target_processes, target_pids>>]_vars

\* ------------------------------------------------------------ C35 properties

\* C35: the consumer never holds a batch popped from the FIFO of a type whose
\* CSV file has been closed: whatever unregister_monitor(t) or stop() do on
\* another thread meanwhile, the popped records go to the still-open file.
C35_PoppedBatchHasOpenFile ==
    (c_pc = "write" /\ c_batch # <<>>) => c_type \in csv_files

\* The order the controller's locks nest in.
LockRank(l) ==
    CASE l[1] = "buffer_mgmt" -> 0
      [] l[1] = "monitor" -> 1
      [] l[1] = "csv" -> 2
      [] OTHER -> 3

\* th waits for a lock another thread (or th itself) holds.
Waiting(th) == AtStep(th, AcquireOps) /\ Holders(Wanted(th)) # {}

\* The threads th waits for, directly or through n further waiting threads.
RECURSIVE WaitChain(_, _)
WaitChain(th, n) ==
    IF ~Waiting(th) THEN {}
    ELSE LET direct == Holders(Wanted(th))
         IN  IF n = 0 THEN direct
             ELSE direct \cup UNION {WaitChain(h, n - 1) : h \in direct}

\* C36: no interleaving of the drain threads, the consumer thread and the main
\* thread deadlocks: no thread waits for a lock held, directly or through other
\* waiting threads, by itself; every thread takes its locks in the one order
\* buffer_mgmt_lock, buffer lock, CSV lock, console_lock; at most one thread
\* holds a lock; and a thread that has left its call holds no lock.
C36_NoDeadlock ==
    /\ \A th \in LockThreads : th \notin WaitChain(th, Cardinality(LockThreads))
    /\ \A th \in LockThreads :
        /\ \A i, j \in 1..Len(th_held[th]) :
            i < j => LockRank(th_held[th][i]) < LockRank(th_held[th][j])
        /\ AtStep(th, AcquireOps) =>
            \A l \in HeldBy(th) : LockRank(l) < LockRank(Wanted(th))
        /\ th_prog[th] = <<>> => th_held[th] = <<>>
    /\ \A a, b \in LockThreads : a # b => HeldBy(a) \cap HeldBy(b) = {}

\* The consumer holds the buffer lock and the CSV lock of a type while the main
\* thread holds buffer_mgmt_lock and the drain thread of the type waits for the
\* buffer lock.
C36_Witness ==
    /\ Len(th_held["consumer"]) = 2
    /\ buffer_mgmt_lock \in HeldBy("main")
    /\ \E t \in MonitorTypes : Waiting(t) /\ Wanted(t) \in HeldBy("consumer")

\* C37: the process does not exit with a started OutputController left
\* unstopped: when the main thread has exited, with whatever code, the
\* controller is not running and its CSV files have been closed.
C37_ControllerStoppedAtExit ==
    m_pc = "exited" => (~oc_running /\ csv_files = {})

\* C38: a daemon that exits on a startup error leaves no PID file behind: when
\* a process that became a daemon has exited with code 1, the PID-file path
\* does not name a file that holds its PID.
C38_NoPidFileAfterStartupError ==
    \A p \in Daemons :
        (is_daemon[p] /\ p_pc[p] = "exited" /\ p_exit[p] = 1)
            => ~(path_inode # 0 /\ inode_content[path_inode] = p)


====
